---- MODULE Spec2Model ----
(***************************************************************************)
(* Order lifecycle and payment reconciliation of the SEO order server.     *)
(*                                                                         *)
(* The committed database (orders, payments, order_status_history,         *)
(* customers, the orders_id_seq sequence) is shared by request handlers    *)
(* that run concurrently, one per request slot.  A handler that works on   *)
(* a transactional client buffers its writes in tx[p] until COMMIT         *)
(* (PostgreSQL READ COMMITTED: other sessions see nothing before commit);  *)
(* an UPDATE of an order row holds that row's lock until the transaction   *)
(* ends.  Handlers that use the pool's query() run every statement in its  *)
(* own transaction.  Money is counted in cents.                            *)
(***************************************************************************)
EXTENDS Integers, Sequences, FiniteSets, TLC

VARIABLES
    orders,         \* order id -> committed row of table orders
    payments,       \* order id -> committed rows of table payments, by insertion
    history,        \* order id -> committed rows of order_status_history, by insertion
    customers,      \* customer id -> committed row of table customers
    deliverables,   \* ids of the orders that have a row in table deliverables
    orders_id_seq,  \* last value of the sequence orders_id_seq
    customers_id_seq, \* last value of the sequence customers_id_seq
    pc,             \* slot -> position of the handler running in it
    req,            \* slot -> the request being handled
    loc,            \* slot -> the handler's local variables
    tx,             \* slot -> uncommitted writes of the handler's transaction
    lock,           \* order id -> slot holding the row lock, 0 when free
    resp,           \* slot -> response sent for the slot's last request
    nreq,           \* requests accepted so far
    tiers,          \* tier id -> row of service_tiers (price in cents, is_active)
    today,          \* the current date, counted in days
    pool,           \* the connection pool: the calls each handler made on the
                    \* client it checked out, and the clients handlers left with
    paypalService,  \* the PayPal client's cached accessToken and tokenExpiry
    auth            \* the calls of getAccessToken in progress, the clock and the
                    \* token responses PayPal has given

\* The PayPal client's token cache and the calls that use it.  The handlers
\* take a gateway call with its authentication as one call with its outcome;
\* the token cache is followed through the calls of getAccessToken.
gateway == <<paypalService, auth>>

vars == <<orders, payments, history, customers, deliverables, orders_id_seq, customers_id_seq,
          pc, req, loc, tx, lock, resp, nreq, tiers, today, pool, gateway>>

db == <<orders, payments, history, customers, deliverables>>

----------------------------------------------------------------------------
(* Bounds of the model *)

\* Requests the server accepts in a run, and order rows it inserts (committed
\* or rolled back: every insert consumes two values of orders_id_seq).
MaxReq == 3
MaxOrders == 2
\* Days the clock runs through.
MaxDay == 2
\* Ticks of the clock the token cache is followed through.
MaxTime == 3

\* Two requests are in flight at most: the races the handlers can lose are
\* races between two requests.
Slots == {1, 2}

\* The requests that call the gateway's authentication.
Callers == 1..MaxReq

\* LPAD(..., 4, '0') of generate_tracking_id.
TrackingDigits == 4

\* orders_id_seq is never reset: a database that has served orders for a
\* while has it at any value.  HighSeq is the last value whose successors
\* still fit in TrackingDigits digits, less one draw.
HighSeq == 10 ^ TrackingDigits - 2
SeqStarts == {0, HighSeq}
SeqBase == IF orders_id_seq >= HighSeq THEN HighSeq ELSE 0
OrderIds == UNION {(b + 1)..(b + 2 * MaxOrders) : b \in SeqStarts}

----------------------------------------------------------------------------
(* Reference data and inputs *)

\* service_tiers joined with services.  The catalog is data the operator
\* maintains in the database; no handler writes it.  validateOrderCreation
\* lets /create through only with a serviceId that is a decimal numeral, so
\* the tiers here have such ids (the rows schema.sql seeds have slug ids and
\* are refused by that validator before the handler runs).  Tier 1 is
\* active and costs 450.00; tier 2 costs 200.00 and has been deactivated.
TierIds == {1, 2}
InitialTiers ==
    [t \in TierIds |-> [price |-> IF t = 1 THEN 45000 ELSE 20000, is_active |-> t = 1,
                        service_is_active |-> TRUE]]

\* A lookup that does not join the parent service.
TierActive_IgnoresService(t) == tiers[t].is_active

\* WHERE st.id = $1 AND st.is_active = true AND s.is_active = true: each
\* tier row carries the is_active flag of the service it joins to.
TierActive(t) == tiers[t].is_active /\ tiers[t].service_is_active
TierPrice(t) == tiers[t].price

Emails == {"a@x.io"}
\* Order ids a request may name: the ids the sequence gives to the first two
\* orders (a request may arrive before the order it names exists).
RequestOrderIds == {1, 3}
GatewayRefs == {"PP-A", "PP-B"}
Statuses == {"pending", "confirmed", "in_progress", "completed", "cancelled"}
AdminId == 1

EmptyFn == [x \in {} |-> 0]
NoTx ==
    [ord |-> EmptyFn, pay |-> <<>>, hist |-> <<>>, cust |-> EmptyFn,
     delord |-> {}, delcust |-> {}]
NoLoc ==
    [tier |-> 0, price |-> 0, customerId |-> 0, orderId |-> 0, total |-> 0, amount |-> 0,
     i |-> 0, day |-> 0, captureStatus |-> "", mail |-> ""]
NoResp == [code |-> 0, message |-> ""]
NoReq == [kind |-> "none"]

Abs(x) == IF x < 0 THEN -x ELSE x

----------------------------------------------------------------------------
(* The state after the schema is installed and the server has started *)

\* constructor of PayPalService: accessToken = null, tokenExpiry = null (0
\* stands for null; the clock starts after 0).
NoToken == [accessToken |-> 0, tokenExpiry |-> 0]

NoAuth ==
    [pc |-> [c \in Callers |-> "ready"], got |-> [c \in Callers |-> 0],
     now |-> 1, responses |-> {}]

\* new Pool(dbConfig): at most max clients are checked out at a time.
dbConfig == [max |-> 20]

NoPool == [client |-> [p \in Slots |-> <<>>], leaked |-> 0]

Init ==
    /\ orders = EmptyFn
    /\ payments = EmptyFn
    /\ history = EmptyFn
    /\ customers = EmptyFn
    /\ deliverables = {}
    /\ orders_id_seq = 0
    /\ customers_id_seq = 0
    /\ pc = [p \in Slots |-> "idle"]
    /\ req = [p \in Slots |-> NoReq]
    /\ loc = [p \in Slots |-> NoLoc]
    /\ tx = [p \in Slots |-> NoTx]
    /\ lock = [o \in OrderIds |-> 0]
    /\ resp = [p \in Slots |-> NoResp]
    /\ nreq = 0
    /\ pool = NoPool
    /\ tiers = InitialTiers
    /\ today = 1
    /\ paypalService = NoToken
    /\ auth = NoAuth

----------------------------------------------------------------------------
(* What a statement of slot p's transaction sees: committed rows and its   *)
(* own uncommitted writes                                                  *)

\* The handler of slot p calls its client: query("BEGIN"), query("COMMIT"),
\* query("ROLLBACK"), release().
ClientCalls(p, calls) == [pool EXCEPT !.client[p] = @ \o calls]

\* A handler in flight holds its client until it calls release().
HoldsClient(p) ==
    /\ pc[p] # "idle"
    /\ pool.client[p] # <<>>
    /\ \A i \in 1..Len(pool.client[p]) : pool.client[p][i] # "release"

\* totalCount - idleCount of the pool.
CheckedOut == pool.leaked + Cardinality({p \in Slots : HoldsClient(p)})

VisibleOrders(p) == tx[p].ord @@ orders
VisibleCustomers(p) == tx[p].cust @@ customers

\* The rows of a table that a transaction's DELETEs leave.
Without(rows, deleted) == [k \in DOMAIN rows \ deleted |-> rows[k]]

RowsOf(rows, o) == SelectSeq(rows, LAMBDA r : r.order_id = o)
Committed(table, o) == IF o \in DOMAIN table THEN table[o] ELSE <<>>

\* schema.sql trigger_add_status_history: AFTER UPDATE ON orders, one row
\* when the status changed.
add_status_history(old, new, id) ==
    IF old.status # new.status
    THEN <<[order_id |-> id, status |-> new.status,
            notes |-> "Status changed automatically", changed_by |-> 0]>>
    ELSE <<>>

\* UPDATE orders SET ... WHERE id = o on slot p's transactional client; set
\* maps the old row to the new one.  The statement waits while another
\* transaction holds the row lock.
CanUpdateOrder(p, o) == o \in OrderIds => lock[o] \in {0, p}

UpdateOrderTx(p, o, new) ==
    /\ IF o \in DOMAIN VisibleOrders(p)
       THEN /\ tx' = [tx EXCEPT ![p].ord = (o :> new) @@ tx[p].ord,
                                ![p].hist = tx[p].hist \o
                                    add_status_history(VisibleOrders(p)[o], new, o)]
            /\ lock' = [lock EXCEPT ![o] = p]
       ELSE UNCHANGED <<tx, lock>>
    /\ UNCHANGED pool

\* An INSERT of a row that refers to order o (payments, order_status_history,
\* deliverables) waits while another transaction has deleted the order and
\* has not ended, and violates the foreign key when the order is gone.
OrderKeyBusy(p, o) == \E q \in Slots \ {p} : o \in tx[q].delord

ReleaseLocks(held) == [o \in OrderIds |-> IF lock[o] \in held THEN 0 ELSE lock[o]]

\* part_000 commitTransaction: COMMIT, then release the client.
commitTransaction(p) ==
    LET newOrders == Without(tx[p].ord @@ orders, tx[p].delord) IN
    /\ orders' = newOrders
    /\ payments' = [o \in DOMAIN newOrders |->
                      Committed(payments, o) \o RowsOf(tx[p].pay, o)]
    /\ history' = [o \in DOMAIN newOrders |->
                      Committed(history, o) \o RowsOf(tx[p].hist, o)]
    /\ customers' = Without(tx[p].cust @@ customers, tx[p].delcust)
    /\ deliverables' = deliverables \ tx[p].delord
    /\ pool' = ClientCalls(p, <<"COMMIT", "release">>)
    /\ tx' = [tx EXCEPT ![p] = NoTx]
    /\ lock' = ReleaseLocks({p})

\* A helper that sends COMMIT where ROLLBACK belongs.
rollbackTransaction_Commits(p) == commitTransaction(p)

\* part_000 rollbackTransaction: ROLLBACK, then release the client.
rollbackTransaction(p) ==
    /\ tx' = [tx EXCEPT ![p] = NoTx]
    /\ lock' = ReleaseLocks({p})
    /\ pool' = ClientCalls(p, <<"ROLLBACK", "release">>)
    /\ UNCHANGED db

\* res.status(code).json({message}) ends the handler.
Respond(p, code, message) ==
    /\ pc' = [pc EXCEPT ![p] = "idle"]
    /\ req' = [req EXCEPT ![p] = NoReq]
    /\ resp' = [resp EXCEPT ![p] = [code |-> code, message |-> message]]
    /\ loc' = [loc EXCEPT ![p] = NoLoc]

\* The handler goes on to its next statement.
Goto(p, label) ==
    /\ pc' = [pc EXCEPT ![p] = label]
    /\ UNCHANGED req

\* The message of each handler's catch block.
FailureMessage(kind) ==
    CASE kind = "create" -> "Failed to create order"
      [] kind = "capture" -> "Failed to capture payment"
      [] kind = "status" -> "Failed to update order status"
      [] kind = "test" -> "Failed to create test order"
      [] kind = "stripe" -> "Failed to process payment"
      [] kind = "delorder" -> "Failed to delete order"
      [] kind = "delcustomer" -> "Failed to delete customer"

----------------------------------------------------------------------------
(* Requests *)

CreateRequests ==
    [kind : {"create"}, customer : Emails, serviceId : TierIds, quantity : {1}]
CaptureRequests ==
    [kind : {"capture"}, orderId : RequestOrderIds, paypalOrderId : GatewayRefs]

StatusRequests ==
    [kind : {"status"}, orderId : RequestOrderIds, status : Statuses]
DeliverRequests == [kind : {"deliver"}, orderId : RequestOrderIds]
UploadRequests == [kind : {"upload"}, orderId : RequestOrderIds]
SendRequests == [kind : {"send"}, orderId : RequestOrderIds]
Carts == {<<1>>, <<2>>}
TestRequests == [kind : {"test"}, customer : Emails, cart : Carts]
StripeRequests ==
    [kind : {"stripe"}, customer : Emails, cart : Carts, paymentIntentId : {"pi_1"}]
WebhookRequests ==
    [kind : {"webhook"},
     eventType : {"PAYMENT.CAPTURE.COMPLETED", "PAYMENT.CAPTURE.DENIED",
                  "CHECKOUT.ORDER.APPROVED"},
     resourceId : GatewayRefs]

Requests ==
    CreateRequests \cup CaptureRequests \cup StatusRequests \cup DeliverRequests
        \cup UploadRequests \cup SendRequests \cup TestRequests \cup StripeRequests
        \cup WebhookRequests

FirstLabel(r) ==
    CASE r.kind = "create" -> "c_tier"
      [] r.kind = "capture" -> "k_select"
      [] r.kind = "status" -> "a_select"
      [] r.kind = "deliver" -> "d_select"
      [] r.kind = "upload" -> "u_insert"
      [] r.kind = "send" -> "s_select"
      [] r.kind = "test" -> "t_cust"
      [] r.kind = "stripe" -> "x_stripe"
      [] r.kind = "webhook" -> "w_event"
      [] r.kind = "delorder" -> "do_select"
      [] r.kind = "delcustomer" -> "dc_select"

\* A request arrives and takes the first free slot (slots are
\* interchangeable); the handler's first statement, beginTransaction(), has
\* given it a client with BEGIN issued: NOW() is that moment for the whole
\* transaction.
Accept(p, requests) ==
    /\ pc[p] = "idle"
    /\ \A q \in Slots : q < p => pc[q] # "idle"
    /\ nreq < MaxReq
    /\ \E r \in requests :
          /\ req' = [req EXCEPT ![p] = r]
          /\ pc' = [pc EXCEPT ![p] = FirstLabel(r)]
    /\ resp' = [resp EXCEPT ![p] = NoResp]
    /\ nreq' = nreq + 1
    /\ loc' = [loc EXCEPT ![p].day = today]
    /\ CheckedOut < dbConfig.max
    /\ pool' = [pool EXCEPT !.client[p] = <<"BEGIN">>]
    /\ UNCHANGED <<db, orders_id_seq, customers_id_seq, tx, lock, tiers, today, gateway>>

Start(p) == Accept(p, Requests)

----------------------------------------------------------------------------
(* POST /create  (part_002 lines 24-144) *)

Create_Tier(p) ==
    /\ pc[p] = "c_tier"
    /\ IF TierActive(req[p].serviceId)
       THEN /\ loc' = [loc EXCEPT ![p].tier = req[p].serviceId,
                                  ![p].price = TierPrice(req[p].serviceId)]
            /\ Goto(p, "c_cust")
            /\ UNCHANGED <<db, tx, lock, resp, pool>>
       ELSE /\ rollbackTransaction(p)
            /\ Respond(p, 400, "Invalid or inactive service tier")
    /\ UNCHANGED <<orders_id_seq, customers_id_seq, nreq, tiers, today, gateway>>

CustomerByEmail(rows, e) == {c \in DOMAIN rows : rows[c].email = e}

\* SELECT id FROM customers WHERE email = $1
Create_Customer(p) ==
    /\ pc[p] = "c_cust"
    /\ LET found == CustomerByEmail(customers, req[p].customer) IN
       IF found # {}
       THEN /\ loc' = [loc EXCEPT ![p].customerId = CHOOSE c \in found : TRUE]
            /\ Goto(p, "c_cust_upd")
       ELSE /\ Goto(p, "c_cust_ins")
            /\ UNCHANGED loc
    /\ UNCHANGED <<db, orders_id_seq, customers_id_seq, tx, lock, resp, nreq, tiers, today, pool, gateway>>

\* Another transaction has written the customer's row (UPDATE or DELETE) and
\* has not ended: a statement that writes the row waits.
CustomerRowBusy(p, c) ==
    \E q \in Slots \ {p} : c \in DOMAIN tx[q].cust \/ c \in tx[q].delcust

\* UPDATE customers SET name, website WHERE id = customerId: no row is left
\* to update when the customer was deleted after the SELECT.
Create_CustomerUpdate(p) ==
    /\ pc[p] = "c_cust_upd"
    /\ ~CustomerRowBusy(p, loc[p].customerId)
    /\ LET c == loc[p].customerId IN
       IF c \in DOMAIN customers
       THEN tx' = [tx EXCEPT ![p].cust =
                      (c :> [customers[c] EXCEPT !.name = "updated"]) @@ tx[p].cust]
       ELSE UNCHANGED tx
    /\ Goto(p, "c_order")
    /\ UNCHANGED <<db, orders_id_seq, customers_id_seq, loc, lock, resp, nreq, tiers, today, pool, gateway>>

\* INSERT INTO customers: waits for an uncommitted insert of the same email
\* (unique index), fails when the email is committed by now.
InsertCustomer(p, next) ==
    /\ \A q \in Slots \ {p} :
          CustomerByEmail(tx[q].cust, req[p].customer) \subseteq DOMAIN customers
    /\ IF CustomerByEmail(customers, req[p].customer) # {}
       THEN /\ rollbackTransaction(p)
            /\ Respond(p, 500, FailureMessage(req[p].kind))
            /\ UNCHANGED customers_id_seq
       ELSE LET c == customers_id_seq + 1 IN
            /\ customers_id_seq' = c
            /\ tx' = [tx EXCEPT ![p].cust =
                         (c :> [email |-> req[p].customer, name |-> "new"])
                             @@ tx[p].cust]
            /\ loc' = [loc EXCEPT ![p].customerId = c]
            /\ Goto(p, next)
            /\ UNCHANGED <<db, lock, resp, pool>>
    /\ UNCHANGED <<orders_id_seq, nreq, tiers, today, gateway>>

Create_CustomerInsert(p) ==
    /\ pc[p] = "c_cust_ins"
    /\ InsertCustomer(p, "c_order")

\* serviceTier.price * quantity: the DECIMAL price arrives as text, the
\* product is an IEEE double that can miss the exact value by a rounding
\* error (4.35 * 100 is 434.99999999999994), far below a thousandth of a
\* cent for every amount DECIMAL(10,2) can hold.  Amounts are counted in
\* cents, doubles in thousandths of a cent.
FloatUnitsPerCent == 1000
FloatErrors == {-1, 0, 1}
JsProduct(price, quantity, e) == price * quantity * FloatUnitsPerCent + e

\* Storing a double into a DECIMAL(10,2) column rounds it to the nearest cent.
RoundToCents_Truncates(x) == x \div FloatUnitsPerCent
RoundToCents(x) == (x + FloatUnitsPerCent \div 2) \div FloatUnitsPerCent

\* The decimal digits of n, most significant first (nextval(...)::TEXT).
RECURSIVE Digits(_)
Digits(n) == IF n < 10 THEN <<n>> ELSE Digits(n \div 10) \o <<n % 10>>

\* PostgreSQL LPAD(s, len, '0'): pads on the left up to len characters, and
\* cuts s down to its first len characters when it is longer.
LPAD(s, len) ==
    IF Len(s) >= len
    THEN SubSeq(s, 1, len)
    ELSE [i \in 1..(len - Len(s)) |-> 0] \o s

\* 'SEO-' || TO_CHAR(NOW(), 'YYYYMMDD') || '-' || LPAD(nextval::TEXT, 4, '0')
generate_tracking_id(day, n) ==
    [prefix |-> "SEO", date |-> day, number |-> LPAD(Digits(n), TrackingDigits)]

\* INSERT INTO orders: the id default takes nextval('orders_id_seq'), then
\* trigger_set_tracking_id takes the next value for the tracking code.
NewOrderRow(customerId, tier, price, quantity, e, status, paymentStatus, seq, day) ==
    [customer_id |-> customerId, service_tier_id |-> tier,
     service_price |-> price, quantity |-> quantity,
     total_amount |-> RoundToCents(JsProduct(price, quantity, e)),
     status |-> status, payment_status |-> paymentStatus,
     tracking_id |-> generate_tracking_id(day, seq + 2)]

TrackingIds(rows) == {rows[o].tracking_id : o \in DOMAIN rows}

\* The INSERT with the UNIQUE index on tracking_id: it waits for another
\* transaction's uncommitted row with the same code, and fails with a
\* unique violation (the catch block rolls back and answers 500) when the
\* code is already there.  The sequence values it drew are not given back.
\* The insert on a table whose tracking_id column has no UNIQUE index.
InsertOrder_NoUniqueIndex(p, tier, price, quantity, status, paymentStatus, next) ==
    /\ orders_id_seq + 2 <= SeqBase + 2 * MaxOrders
    /\ orders_id_seq' = orders_id_seq + 2
    /\ \E e \in FloatErrors :
          LET id == orders_id_seq + 1
              row == NewOrderRow(loc[p].customerId, tier, price, quantity, e,
                                 status, paymentStatus, orders_id_seq, loc[p].day)
          IN /\ tx' = [tx EXCEPT ![p].ord = (id :> row) @@ tx[p].ord]
             /\ loc' = [loc EXCEPT ![p].orderId = id, ![p].tier = tier,
                                   ![p].price = price]
             /\ Goto(p, next)
             /\ UNCHANGED <<db, lock, resp, pool>>
    /\ UNCHANGED <<customers_id_seq, nreq, tiers, today, gateway>>

InsertOrder(p, tier, price, quantity, status, paymentStatus, next) ==
    /\ orders_id_seq + 2 <= SeqBase + 2 * MaxOrders
    /\ orders_id_seq' = orders_id_seq + 2
    /\ \E e \in FloatErrors :
          LET id == orders_id_seq + 1
              row == NewOrderRow(loc[p].customerId, tier, price, quantity, e,
                                 status, paymentStatus, orders_id_seq, loc[p].day)
          IN /\ \A q \in Slots \ {p} : row.tracking_id \notin TrackingIds(tx[q].ord)
             /\ \A q \in Slots \ {p} : loc[p].customerId \notin tx[q].delcust
             /\ IF \/ row.tracking_id \in TrackingIds(VisibleOrders(p))
                   \/ loc[p].customerId \notin DOMAIN VisibleCustomers(p)
                THEN /\ rollbackTransaction(p)
                     /\ Respond(p, 500, FailureMessage(req[p].kind))
                ELSE /\ tx' = [tx EXCEPT ![p].ord = (id :> row) @@ tx[p].ord]
                     /\ loc' = [loc EXCEPT ![p].orderId = id, ![p].tier = tier,
                                           ![p].price = price]
                     /\ Goto(p, next)
                     /\ UNCHANGED <<db, lock, resp, pool>>
    /\ UNCHANGED <<customers_id_seq, nreq, tiers, today, gateway>>

Create_Order(p) ==
    /\ pc[p] = "c_order"
    /\ InsertOrder(p, loc[p].tier, loc[p].price, req[p].quantity, "pending", "pending",
                   "c_hist")

\* A creation that records no history entry.
CreateHistoryRows_None(id) == <<>>
CreateHistoryRows(id) ==
    <<[order_id |-> id, status |-> "pending", notes |-> "Order created", changed_by |-> 0]>>

Create_History(p) ==
    /\ pc[p] = "c_hist"
    /\ tx' = [tx EXCEPT ![p].hist = tx[p].hist \o CreateHistoryRows(loc[p].orderId)]
    /\ Goto(p, "c_commit")
    /\ UNCHANGED <<db, orders_id_seq, customers_id_seq, loc, lock, resp, nreq, tiers, today, pool, gateway>>

Create_Commit(p) ==
    /\ pc[p] = "c_commit"
    /\ commitTransaction(p)
    /\ Goto(p, "c_paypal")
    /\ UNCHANGED <<orders_id_seq, customers_id_seq, loc, resp, nreq, tiers, today, gateway>>

\* process.exit(1) from the unhandledRejection handler, after the handler of
\* slot p made its last calls on its client: every open connection is
\* dropped, so every open transaction is rolled back, no handler in flight
\* answers its request, and the process starts again with an empty pool.
ServerExit(p, calls) ==
    /\ pc' = [q \in Slots |-> "idle"]
    /\ req' = [q \in Slots |-> NoReq]
    /\ resp' = [q \in Slots |-> IF pc[q] = "idle" THEN resp[q]
                                ELSE [code |-> 0, message |-> "connection closed"]]
    /\ loc' = [q \in Slots |-> NoLoc]
    /\ tx' = [q \in Slots |-> NoTx]
    /\ lock' = [o \in OrderIds |-> 0]
    /\ pool' = [client |-> ClientCalls(p, calls).client, leaked |-> 0]
    /\ UNCHANGED db

\* After the commit the argument of paypalService.createOrder reads
\* service.name; no binding named service exists, so a ReferenceError is
\* thrown.  The catch block calls rollbackTransaction on the client that
\* commitTransaction released: its second release() throws inside the catch,
\* the handler's promise rejects, Express 4 (the server mounts its catch-all
\* with app.use("*")) does not catch it, and the unhandledRejection handler
\* exits the process.
Create_PayPalOrder(p) ==
    /\ pc[p] = "c_paypal"
    /\ ServerExit(p, <<"ROLLBACK", "release">>)
    /\ UNCHANGED <<orders_id_seq, customers_id_seq, nreq, tiers, today, gateway>>

----------------------------------------------------------------------------
(* POST /capture-payment  (part_002 lines 147-248) *)

\* Math.abs(paymentInfo.amount - parseFloat(order.total_amount)) > 0.01 in
\* IEEE doubles: for a whole-dollar total the difference of one cent
\* evaluates to 0.00999999999999 and is accepted; two cents or more exceed
\* 0.01.
\* A comparison that tolerates any difference below one dollar.
AmountMismatch_WholeDollar(amount, total) == Abs(amount - total) > 100
AmountMismatch(amount, total) == Abs(amount - total) > 1

\* Amounts the gateway may report for an order of the given total.
GatewayAmounts(total) == {total, total + 1, total - 50}

Capture_Select(p) ==
    /\ pc[p] = "k_select"
    /\ IF req[p].orderId \in DOMAIN orders
       THEN /\ loc' = [loc EXCEPT ![p].orderId = req[p].orderId,
                                  ![p].total = orders[req[p].orderId].total_amount]
            /\ Goto(p, "k_gateway")
            /\ UNCHANGED <<db, tx, lock, resp, pool>>
       ELSE /\ rollbackTransaction(p)
            /\ Respond(p, 404, "Order not found")
    /\ UNCHANGED <<orders_id_seq, customers_id_seq, nreq, tiers, today, gateway>>

\* What the gateway answers with HTTP success: a completed capture of one of
\* the amounts, or a capture it declined (capture.status is not 'COMPLETED').
GatewayCaptures(total) ==
    [amount : GatewayAmounts(total), status : {"COMPLETED"}]
        \cup [amount : {total}, status : {"DECLINED"}]

\* paypalService.captureOrder throws on an HTTP error, or returns the capture
\* whose amount and status extractPaymentInfo reads.
Capture_Gateway(p) ==
    /\ pc[p] = "k_gateway"
    /\ \/ /\ rollbackTransaction(p)
          /\ Respond(p, 500, "Failed to capture payment")
       \/ \E c \in GatewayCaptures(loc[p].total) :
             /\ loc' = [loc EXCEPT ![p].amount = c.amount,
                                   ![p].captureStatus = c.status]
             /\ Goto(p, "k_check")
             /\ UNCHANGED <<db, tx, lock, resp, pool>>
    /\ UNCHANGED <<orders_id_seq, customers_id_seq, nreq, tiers, today, gateway>>

\* A handler without the comparison of the captured amount.
Capture_Check_Skipped(p) ==
    /\ pc[p] = "k_check"
    /\ Goto(p, "k_update")
    /\ UNCHANGED <<db, tx, lock, resp, loc, pool>>
    /\ UNCHANGED <<orders_id_seq, customers_id_seq, nreq, tiers, today, gateway>>

\* "Verify payment amount matches order amount"
Capture_Check(p) ==
    /\ pc[p] = "k_check"
    /\ IF AmountMismatch(loc[p].amount, loc[p].total)
       THEN /\ rollbackTransaction(p)
            /\ Respond(p, 400, "Payment amount mismatch")
       ELSE /\ Goto(p, "k_update")
            /\ UNCHANGED <<db, tx, lock, resp, loc, pool>>
    /\ UNCHANGED <<orders_id_seq, customers_id_seq, nreq, tiers, today, gateway>>

CaptureOrderRow(old) == [old EXCEPT !.payment_status = "paid", !.status = "confirmed"]

Capture_Update(p) ==
    /\ pc[p] = "k_update"
    /\ CanUpdateOrder(p, loc[p].orderId)
    /\ UpdateOrderTx(p, loc[p].orderId, CaptureOrderRow(VisibleOrders(p)[loc[p].orderId]))
    /\ Goto(p, "k_payment")
    /\ UNCHANGED <<db, orders_id_seq, customers_id_seq, loc, resp, nreq, tiers, today, gateway>>

CapturePaymentRows(id, ref, amount) ==
    <<[order_id |-> id, payment_method |-> "paypal", payment_id |-> ref,
       amount |-> amount, status |-> "paid"]>>

\* The same insert sent through the pool's query(), outside the transaction.
Capture_Payment_Autocommit(p) ==
    /\ pc[p] = "k_payment"
    /\ payments' = [payments EXCEPT ![loc[p].orderId] = @ \o
                        CapturePaymentRows(loc[p].orderId, req[p].paypalOrderId,
                                           loc[p].amount)]
    /\ Goto(p, "k_hist")
    /\ UNCHANGED <<orders, history, customers, deliverables, orders_id_seq,
                   customers_id_seq, loc, tx, lock, resp, nreq, tiers, today, pool, gateway>>
Capture_Payment(p) ==
    /\ pc[p] = "k_payment"
    /\ ~OrderKeyBusy(p, loc[p].orderId)
    /\ IF loc[p].orderId \in DOMAIN VisibleOrders(p)
       THEN /\ tx' = [tx EXCEPT ![p].pay = tx[p].pay \o
                        CapturePaymentRows(loc[p].orderId, req[p].paypalOrderId,
                                           loc[p].amount)]
            /\ Goto(p, "k_hist")
            /\ UNCHANGED <<db, loc, lock, resp, pool>>
       ELSE /\ rollbackTransaction(p)
            /\ Respond(p, 500, FailureMessage(req[p].kind))
    /\ UNCHANGED <<orders_id_seq, customers_id_seq, nreq, tiers, today, gateway>>

CaptureHistoryRows(id) ==
    <<[order_id |-> id, status |-> "confirmed",
       notes |-> "Payment received and confirmed", changed_by |-> 0]>>

Capture_History(p) ==
    /\ pc[p] = "k_hist"
    /\ ~OrderKeyBusy(p, loc[p].orderId)
    /\ IF loc[p].orderId \in DOMAIN VisibleOrders(p)
       THEN /\ tx' = [tx EXCEPT ![p].hist =
                        tx[p].hist \o CaptureHistoryRows(loc[p].orderId)]
            /\ Goto(p, "k_commit")
            /\ UNCHANGED <<db, loc, lock, resp, pool>>
       ELSE /\ rollbackTransaction(p)
            /\ Respond(p, 500, FailureMessage(req[p].kind))
    /\ UNCHANGED <<orders_id_seq, customers_id_seq, nreq, tiers, today, gateway>>

Capture_Commit(p) ==
    /\ pc[p] = "k_commit"
    /\ commitTransaction(p)
    /\ Goto(p, "k_email")
    /\ UNCHANGED <<orders_id_seq, customers_id_seq, loc, resp, nreq, tiers, today, gateway>>

MailOutcomes == {"sent", "failed"}

\* sendOrderConfirmation succeeds or throws; the inner catch logs the error
\* and the handler goes on to its response.
Capture_Email(p) ==
    /\ pc[p] = "k_email"
    /\ \E m \in MailOutcomes : loc' = [loc EXCEPT ![p].mail = m]
    /\ Goto(p, "k_respond")
    /\ UNCHANGED <<db, orders_id_seq, customers_id_seq, tx, lock, resp, nreq, tiers, today, pool, gateway>>

CaptureSuccess == [code |-> 200, message |-> "Payment captured successfully"]

\* A handler that lets the e-mail error reach its outer catch block.
CaptureResponse_MailErrorFails(mail) ==
    IF mail = "failed"
    THEN [code |-> 500, message |-> "Failed to capture payment"]
    ELSE CaptureSuccess

\* res.json({success: true, ...}) after the e-mail attempt, whatever came of it.
CaptureResponse(mail) == CaptureSuccess

Capture_Respond(p) ==
    /\ pc[p] = "k_respond"
    /\ Respond(p, CaptureResponse(loc[p].mail).code, CaptureResponse(loc[p].mail).message)
    /\ UNCHANGED <<db, orders_id_seq, customers_id_seq, tx, lock, nreq, tiers, today, pool, gateway>>

----------------------------------------------------------------------------
(* PUT /orders/:id/status  (middleware/validation.js lines 589-668) *)

Status_Select(p) ==
    /\ pc[p] = "a_select"
    /\ IF req[p].orderId \in DOMAIN orders
       THEN /\ Goto(p, "a_update")
            /\ UNCHANGED <<db, tx, lock, resp, loc, pool>>
       ELSE /\ rollbackTransaction(p)
            /\ Respond(p, 404, "Order not found")
    /\ UNCHANGED <<orders_id_seq, customers_id_seq, nreq, tiers, today, gateway>>

StatusOrderRow(old, status) == [old EXCEPT !.status = status]

Status_Update(p) ==
    /\ pc[p] = "a_update"
    /\ CanUpdateOrder(p, req[p].orderId)
    /\ UpdateOrderTx(p, req[p].orderId,
                     StatusOrderRow(VisibleOrders(p)[req[p].orderId], req[p].status))
    /\ Goto(p, "a_hist")
    /\ UNCHANGED <<db, orders_id_seq, customers_id_seq, loc, resp, nreq, tiers, today, gateway>>

StatusHistoryRows(id, status) ==
    <<[order_id |-> id, status |-> status, notes |-> "", changed_by |-> AdminId]>>

Status_History(p) ==
    /\ pc[p] = "a_hist"
    /\ ~OrderKeyBusy(p, req[p].orderId)
    /\ IF req[p].orderId \in DOMAIN VisibleOrders(p)
       THEN /\ tx' = [tx EXCEPT ![p].hist =
                        tx[p].hist \o StatusHistoryRows(req[p].orderId, req[p].status)]
            /\ Goto(p, "a_commit")
            /\ UNCHANGED <<db, loc, lock, resp, pool>>
       ELSE /\ rollbackTransaction(p)
            /\ Respond(p, 500, FailureMessage(req[p].kind))
    /\ UNCHANGED <<orders_id_seq, customers_id_seq, nreq, tiers, today, gateway>>

\* COMMIT; the status e-mail is started without being awaited and the
\* handler answers.
Status_Commit(p) ==
    /\ pc[p] = "a_commit"
    /\ commitTransaction(p)
    /\ Respond(p, 200, "Order status updated successfully")
    /\ UNCHANGED <<orders_id_seq, customers_id_seq, nreq, tiers, today, gateway>>

----------------------------------------------------------------------------
(* Statements sent through the pool's query(): each is its own transaction *)

\* UPDATE orders SET status = ... WHERE id = o, with trigger_add_status_history.
AutoUpdateStatus(o, status) ==
    IF o \in DOMAIN orders
    THEN /\ orders' = [orders EXCEPT ![o].status = status]
         /\ history' = [history EXCEPT ![o] =
                           @ \o add_status_history(orders[o],
                                                   StatusOrderRow(orders[o], status), o)]
    ELSE UNCHANGED <<orders, history>>

AutoInsertHistory(rows, o) == history' = [history EXCEPT ![o] = @ \o rows]

----------------------------------------------------------------------------
(* POST /orders/:id/deliver  (middleware/validation.js lines 812-949) *)

Deliver_Select(p) ==
    /\ pc[p] = "d_select"
    /\ IF req[p].orderId \in DOMAIN orders
       THEN /\ Goto(p, "d_update")
            /\ UNCHANGED <<resp, loc>>
       ELSE Respond(p, 404, "Order not found")
    /\ UNCHANGED <<db, orders_id_seq, customers_id_seq, tx, lock, nreq, tiers, today, pool, gateway>>

Deliver_Update(p) ==
    /\ pc[p] = "d_update"
    /\ lock[req[p].orderId] = 0
    /\ AutoUpdateStatus(req[p].orderId, "completed")
    /\ Goto(p, "d_hist")
    /\ UNCHANGED <<payments, customers, deliverables, orders_id_seq, customers_id_seq,
                   loc, tx, lock, resp, nreq, tiers, today, pool, gateway>>

DeliverHistoryRows(id) ==
    <<[order_id |-> id, status |-> "completed",
       notes |-> "Order delivered with file attachment", changed_by |-> 0]>>

Deliver_History(p) ==
    /\ pc[p] = "d_hist"
    /\ ~OrderKeyBusy(p, req[p].orderId)
    /\ IF req[p].orderId \in DOMAIN orders
       THEN /\ AutoInsertHistory(DeliverHistoryRows(req[p].orderId), req[p].orderId)
            /\ Goto(p, "d_email")
            /\ UNCHANGED <<loc, resp>>
       ELSE /\ Respond(p, 500, "Failed to deliver order")
            /\ UNCHANGED history
    /\ UNCHANGED <<orders, payments, customers, deliverables, orders_id_seq,
                   customers_id_seq, tx, lock, nreq, tiers, today, pool, gateway>>

\* sendDeliveryEmail succeeds, or throws and the handler answers 500.
Deliver_Email(p) ==
    /\ pc[p] = "d_email"
    /\ \/ Respond(p, 200, "Order delivered successfully")
       \/ Respond(p, 500, "Failed to deliver order")
    /\ UNCHANGED <<db, orders_id_seq, customers_id_seq, tx, lock, nreq, tiers, today, pool, gateway>>

----------------------------------------------------------------------------
(* POST /api/admin/orders/:orderId/deliverables and .../send-deliverables  *)
(* (scripts/test-order-with-email.js lines 473-603)                        *)

\* INSERT INTO deliverables; the foreign key rejects an absent order.
Upload_Insert(p) ==
    /\ pc[p] = "u_insert"
    /\ ~OrderKeyBusy(p, req[p].orderId)
    /\ IF req[p].orderId \in DOMAIN orders
       THEN /\ deliverables' = deliverables \cup {req[p].orderId}
            /\ Respond(p, 200, "File uploaded successfully")
       ELSE /\ UNCHANGED deliverables
            /\ Respond(p, 500, "Failed to upload file")
    /\ UNCHANGED <<orders, payments, history, customers, orders_id_seq,
                   customers_id_seq, tx, lock, nreq, tiers, today, pool, gateway>>

Send_Select(p) ==
    /\ pc[p] = "s_select"
    /\ IF req[p].orderId \notin DOMAIN orders
       THEN Respond(p, 404, "Order not found")
       ELSE IF req[p].orderId \notin deliverables
            THEN Respond(p, 400, "No deliverables found for this order")
            ELSE /\ Goto(p, "s_email")
                 /\ UNCHANGED <<resp, loc>>
    /\ UNCHANGED <<db, orders_id_seq, customers_id_seq, tx, lock, nreq, tiers, today, pool, gateway>>

\* sendDeliverable is awaited before the status is touched.
Send_Email(p) ==
    /\ pc[p] = "s_email"
    /\ \/ /\ Goto(p, "s_update")
          /\ UNCHANGED <<resp, loc>>
       \/ Respond(p, 500, "Failed to send deliverables")
    /\ UNCHANGED <<db, orders_id_seq, customers_id_seq, tx, lock, nreq, tiers, today, pool, gateway>>

Send_Update(p) ==
    /\ pc[p] = "s_update"
    /\ lock[req[p].orderId] = 0
    /\ AutoUpdateStatus(req[p].orderId, "completed")
    /\ Goto(p, "s_hist")
    /\ UNCHANGED <<payments, customers, deliverables, orders_id_seq, customers_id_seq,
                   loc, tx, lock, resp, nreq, tiers, today, pool, gateway>>

SendHistoryRows(id) ==
    <<[order_id |-> id, status |-> "completed",
       notes |-> "Deliverables sent to customer", changed_by |-> AdminId]>>

Send_History(p) ==
    /\ pc[p] = "s_hist"
    /\ ~OrderKeyBusy(p, req[p].orderId)
    /\ IF req[p].orderId \in DOMAIN orders
       THEN /\ AutoInsertHistory(SendHistoryRows(req[p].orderId), req[p].orderId)
            /\ Respond(p, 200, "Deliverables sent successfully")
       ELSE /\ Respond(p, 500, "Failed to send deliverables")
            /\ UNCHANGED history
    /\ UNCHANGED <<orders, payments, customers, deliverables, orders_id_seq,
                   customers_id_seq, tx, lock, nreq, tiers, today, pool, gateway>>

----------------------------------------------------------------------------
(* POST /test-order (part_002 lines 425-664) and POST                      *)
(* /confirm-stripe-payment (part_002 lines 750-902): one order per cart    *)
(* item, inserted as confirmed and paid together with its payment row      *)

\* SELECT id FROM customers WHERE email = $1; an existing customer is reused
\* as it is.
Cart_Customer(p, ins, next) ==
    /\ LET found == CustomerByEmail(customers, req[p].customer) IN
       IF found # {}
       THEN /\ loc' = [loc EXCEPT ![p].customerId = CHOOSE c \in found : TRUE,
                                  ![p].i = 1]
            /\ Goto(p, next)
       ELSE /\ loc' = [loc EXCEPT ![p].i = 1]
            /\ Goto(p, ins)
    /\ UNCHANGED <<db, orders_id_seq, customers_id_seq, tx, lock, resp, nreq, tiers, today, pool, gateway>>

\* The tier of cart item i is looked up; an unknown or inactive tier rolls
\* back and answers 400, otherwise the order row is inserted.
\* const { serviceId, quantity = 1 } = cartItem: the quantity of the item
\* as the request gives it, 1 when the item has none.
CartQuantity(p) == IF "qty" \in DOMAIN req[p] THEN req[p].qty[loc[p].i] ELSE 1

Cart_Order(p, next) ==
    LET tier == req[p].cart[loc[p].i] IN
    IF TierActive(tier)
    THEN InsertOrder(p, tier, TierPrice(tier), CartQuantity(p), "confirmed", "paid", next)
    ELSE /\ rollbackTransaction(p)
         /\ Respond(p, 400, "Invalid service selected")
         /\ UNCHANGED <<orders_id_seq, customers_id_seq, nreq, tiers, today, gateway>>

CartPaymentRows(id, method, ref, amount) ==
    <<[order_id |-> id, payment_method |-> method, payment_id |-> ref,
       amount |-> amount, status |-> "paid"]>>

\* The payment row of item i; then the next item, or COMMIT after the last.
Cart_Payment(p, method, ref, again, done) ==
    /\ tx' = [tx EXCEPT ![p].pay = tx[p].pay \o
                 CartPaymentRows(loc[p].orderId, method, ref,
                                 tx[p].ord[loc[p].orderId].total_amount)]
    /\ loc' = [loc EXCEPT ![p].i = loc[p].i + 1]
    /\ Goto(p, IF loc[p].i < Len(req[p].cart) THEN again ELSE done)
    /\ UNCHANGED <<db, orders_id_seq, customers_id_seq, lock, resp, nreq, tiers, today, pool, gateway>>

Test_Customer(p) ==
    /\ pc[p] = "t_cust"
    /\ req[p].cart # <<>>
    /\ Cart_Customer(p, "t_cust_ins", "t_order")
Test_CustomerInsert(p) == pc[p] = "t_cust_ins" /\ InsertCustomer(p, "t_order")
Test_Order(p) == pc[p] = "t_order" /\ Cart_Order(p, "t_payment")
Test_Payment(p) ==
    pc[p] = "t_payment" /\ Cart_Payment(p, "paypal", "TEST", "t_order", "t_commit")

Test_Commit(p) ==
    /\ pc[p] = "t_commit"
    /\ commitTransaction(p)
    /\ Respond(p, 200, "test orders created successfully")
    /\ UNCHANGED <<orders_id_seq, customers_id_seq, nreq, tiers, today, gateway>>

\* stripeService.confirmPayment throws, or reports the payment intent's status.
Stripe_Confirm(p) ==
    /\ pc[p] = "x_stripe"
    /\ req[p].paymentIntentId # ""
    /\ \/ /\ rollbackTransaction(p)
          /\ Respond(p, 500, "Failed to process payment")
       \/ /\ rollbackTransaction(p)
          /\ Respond(p, 400, "Payment not completed")
       \/ /\ Goto(p, "x_cust")
          /\ UNCHANGED <<db, tx, lock, resp, loc, pool>>
    /\ UNCHANGED <<orders_id_seq, customers_id_seq, nreq, tiers, today, gateway>>

Stripe_Customer(p) == pc[p] = "x_cust" /\ Cart_Customer(p, "x_cust_ins", "x_order")
Stripe_CustomerInsert(p) == pc[p] = "x_cust_ins" /\ InsertCustomer(p, "x_order")
Stripe_Order(p) == pc[p] = "x_order" /\ Cart_Order(p, "x_payment")
Stripe_Payment(p) ==
    pc[p] = "x_payment"
        /\ Cart_Payment(p, "stripe", req[p].paymentIntentId, "x_order", "x_commit")

Stripe_Commit(p) ==
    /\ pc[p] = "x_commit"
    /\ commitTransaction(p)
    /\ Respond(p, 200, "orders created successfully")
    /\ UNCHANGED <<orders_id_seq, customers_id_seq, nreq, tiers, today, gateway>>

----------------------------------------------------------------------------
(* POST /webhook/paypal  (part_002 lines 344-422) *)

\* The same UPDATE without its WHERE clause.
SetPaymentStatus_AllRows(rows, ref, status) ==
    [i \in 1..Len(rows) |-> [rows[i] EXCEPT !.status = status]]

\* UPDATE payments SET status = $1 WHERE payment_id = $3
SetPaymentStatus(rows, ref, status) ==
    [i \in 1..Len(rows) |->
        IF rows[i].payment_id = ref THEN [rows[i] EXCEPT !.status = status] ELSE rows[i]]

WebhookStatus(eventType) ==
    CASE eventType = "PAYMENT.CAPTURE.COMPLETED" -> "paid"
      [] eventType = "PAYMENT.CAPTURE.DENIED" -> "failed"

\* The route reads req.body and acts on it at once: verifyWebhook
\* (services/paypal.js lines 169-199) is called nowhere.  handlePaymentCompleted
\* and handlePaymentDenied catch and log an error of their UPDATE, and the
\* route answers 200 either way.
Webhook_Event(p) ==
    /\ pc[p] = "w_event"
    /\ IF req[p].eventType \in {"PAYMENT.CAPTURE.COMPLETED", "PAYMENT.CAPTURE.DENIED"}
       THEN \/ payments' = [o \in DOMAIN payments |->
                               SetPaymentStatus(payments[o], req[p].resourceId,
                                                WebhookStatus(req[p].eventType))]
            \/ UNCHANGED payments
       ELSE UNCHANGED payments
    /\ Respond(p, 200, "")
    /\ UNCHANGED <<orders, history, customers, deliverables, orders_id_seq,
                   customers_id_seq, tx, lock, nreq, tiers, today, pool, gateway>>

----------------------------------------------------------------------------
(* A statement on the transactional client fails (connection error,        *)
(* statement timeout): the handler's catch block rolls back and answers    *)
(* 500.                                                                    *)

TxLabels ==
    {"c_tier", "c_cust", "c_cust_upd", "c_cust_ins", "c_order", "c_hist",
     "k_select", "k_update", "k_payment", "k_hist",
     "a_select", "a_update", "a_hist",
     "t_cust", "t_cust_ins", "t_order", "t_payment",
     "x_cust", "x_cust_ins", "x_order", "x_payment",
     "do_select", "do_delete", "dc_select", "dc_count", "dc_delete"}

CommitLabels ==
    {"c_commit", "k_commit", "a_commit", "t_commit", "x_commit", "do_commit", "dc_commit"}

QueryFail(p) ==
    /\ pc[p] \in TxLabels
    /\ rollbackTransaction(p)
    /\ Respond(p, 500, FailureMessage(req[p].kind))
    /\ UNCHANGED <<orders_id_seq, customers_id_seq, nreq, tiers, today, gateway>>

\* A statement sent through query() fails: the catch block answers 500; what
\* earlier statements of the handler committed stays.
AutoLabels == {"d_select", "d_update", "d_hist", "u_insert", "s_select", "s_update", "s_hist"}

AutoFailureMessage(kind) ==
    CASE kind = "deliver" -> "Failed to deliver order"
      [] kind = "upload" -> "Failed to upload file"
      [] kind = "send" -> "Failed to send deliverables"

AutoFail(p) ==
    /\ pc[p] \in AutoLabels
    /\ Respond(p, 500, AutoFailureMessage(req[p].kind))
    /\ UNCHANGED <<db, orders_id_seq, customers_id_seq, tx, lock, nreq, tiers, today, pool, gateway>>

\* COMMIT itself fails: commitTransaction has released the client in its
\* finally block, the catch block's rollbackTransaction releases it a second
\* time and release() throws inside the catch.  /test-order wraps that call
\* in its own try/catch and answers 500; in the other handlers the rejection
\* is unhandled and the process exits.
CommitFail(p) ==
    /\ pc[p] \in CommitLabels
    /\ IF pc[p] = "t_commit"
       THEN /\ tx' = [tx EXCEPT ![p] = NoTx]
            /\ lock' = ReleaseLocks({p})
            /\ pool' = ClientCalls(p, <<"COMMIT", "release", "ROLLBACK", "release">>)
            /\ UNCHANGED db
            /\ Respond(p, 500, FailureMessage(req[p].kind))
       ELSE ServerExit(p, <<"COMMIT", "release", "ROLLBACK", "release">>)
    /\ UNCHANGED <<orders_id_seq, customers_id_seq, nreq, tiers, today, gateway>>

----------------------------------------------------------------------------

Next ==
    \E p \in Slots :
        \/ Start(p)
        \/ Create_Tier(p)
        \/ Create_Customer(p)
        \/ Create_CustomerUpdate(p)
        \/ Create_CustomerInsert(p)
        \/ Create_Order(p)
        \/ Create_History(p)
        \/ Create_Commit(p)
        \/ Create_PayPalOrder(p)
        \/ Capture_Select(p)
        \/ Capture_Gateway(p)
        \/ Capture_Check(p)
        \/ Capture_Update(p)
        \/ Capture_Payment(p)
        \/ Capture_History(p)
        \/ Capture_Commit(p)
        \/ Capture_Email(p)
        \/ Capture_Respond(p)
        \/ Status_Select(p)
        \/ Status_Update(p)
        \/ Status_History(p)
        \/ Status_Commit(p)
        \/ Deliver_Select(p)
        \/ Deliver_Update(p)
        \/ Deliver_History(p)
        \/ Deliver_Email(p)
        \/ Upload_Insert(p)
        \/ Send_Select(p)
        \/ Send_Email(p)
        \/ Send_Update(p)
        \/ Send_History(p)
        \/ Test_Customer(p)
        \/ Test_CustomerInsert(p)
        \/ Test_Order(p)
        \/ Test_Payment(p)
        \/ Test_Commit(p)
        \/ Stripe_Confirm(p)
        \/ Stripe_Customer(p)
        \/ Stripe_CustomerInsert(p)
        \/ Stripe_Order(p)
        \/ Stripe_Payment(p)
        \/ Stripe_Commit(p)
        \/ Webhook_Event(p)
        \/ QueryFail(p)
        \/ AutoFail(p)
        \/ CommitFail(p)

Spec == Init /\ [][Next]_vars

----------------------------------------------------------------------------
(* The order ledger on its own: the handlers that insert orders, with the  *)
(* catalog edited or the date advancing underneath them.                   *)

LedgerQuantities == {3}
\* The rows the operator gives the tier: the initial one, a new price, and
\* the new price with the tier or its service switched off.
CatalogRows ==
    {[price |-> 45000, is_active |-> TRUE, service_is_active |-> TRUE],
     [price |-> 7, is_active |-> TRUE, service_is_active |-> TRUE],
     [price |-> 7, is_active |-> FALSE, service_is_active |-> TRUE],
     [price |-> 7, is_active |-> TRUE, service_is_active |-> FALSE]}
\* The tier the operator works on; the other one stays switched off.
EditedTiers == {1}

\* A cart of one item, and one whose second item names the tier that is
\* switched off.
LedgerCarts == {<<1>>, <<1, 2>>}

LedgerRequests ==
    [kind : {"create"}, customer : Emails, serviceId : TierIds,
     quantity : LedgerQuantities]
        \cup [kind : {"test"}, customer : Emails, cart : LedgerCarts]
        \cup [kind : {"stripe"}, customer : Emails, cart : LedgerCarts,
              paymentIntentId : {"pi_1"}]

LedgerStart(p) == Accept(p, LedgerRequests)

\* For the tracking codes the tier and the quantity make no difference: the
\* requests all name the active tier and ask for one unit.  Both handlers
\* that check a cart out insert their orders with the same statement; the
\* one of /test-order stands for them.
\* Two customers: handlers working for the same customer queue up on the
\* customer's row before they reach the orders table.
TrackingEmails == {"a@x.io", "b@x.io"}
TrackingRequests ==
    [kind : {"create"}, customer : TrackingEmails, serviceId : {1}, quantity : {1}]
        \cup [kind : {"test"}, customer : {"b@x.io"}, cart : {<<1>>}]

TrackingStart(p) == Accept(p, TrackingRequests)

\* The operator edits a row of service_tiers, or the row of services it
\* belongs to: a new price, or the tier or its service is switched on or off.  Nothing refers from the row to the orders made of it
\* but the foreign key orders.service_tier_id, which an UPDATE of price or
\* is_active does not touch.
CatalogEdit ==
    /\ \E t \in EditedTiers : \E row \in CatalogRows :
          /\ row # tiers[t]
          /\ tiers' = [tiers EXCEPT ![t] = row]
    /\ UNCHANGED <<db, orders_id_seq, customers_id_seq, pc, req, loc, tx, lock, resp,
                   nreq, today, pool, gateway>>

\* Midnight passes.
NextDay ==
    /\ today < MaxDay
    /\ today' = today + 1
    /\ UNCHANGED <<db, orders_id_seq, customers_id_seq, pc, req, loc, tx, lock, resp,
                   nreq, tiers, pool, gateway>>

InitTracking ==
    /\ orders = EmptyFn
    /\ payments = EmptyFn
    /\ history = EmptyFn
    /\ customers = EmptyFn
    /\ deliverables = {}
    /\ orders_id_seq \in SeqStarts
    /\ customers_id_seq = 0
    /\ pc = [p \in Slots |-> "idle"]
    /\ req = [p \in Slots |-> NoReq]
    /\ loc = [p \in Slots |-> NoLoc]
    /\ tx = [p \in Slots |-> NoTx]
    /\ lock = [o \in OrderIds |-> 0]
    /\ resp = [p \in Slots |-> NoResp]
    /\ nreq = 0
    /\ pool = NoPool
    /\ tiers = InitialTiers
    /\ today = 1
    /\ paypalService = NoToken
    /\ auth = NoAuth

CreateHandler(p) ==
    \/ Create_Tier(p)
    \/ Create_Customer(p)
    \/ Create_CustomerUpdate(p)
    \/ Create_CustomerInsert(p)
    \/ Create_Order(p)
    \/ Create_History(p)
    \/ Create_Commit(p)
    \/ Create_PayPalOrder(p)

TestOrderHandler(p) ==
    \/ Test_Customer(p)
    \/ Test_CustomerInsert(p)
    \/ Test_Order(p)
    \/ Test_Payment(p)
    \/ Test_Commit(p)

StripeHandler(p) ==
    \/ Stripe_Confirm(p)
    \/ Stripe_Customer(p)
    \/ Stripe_CustomerInsert(p)
    \/ Stripe_Order(p)
    \/ Stripe_Payment(p)
    \/ Stripe_Commit(p)

\* Order creation while the operator edits the catalog.
NextLedger ==
    \/ CatalogEdit
    \/ \E p \in Slots :
          \/ LedgerStart(p)
          \/ CreateHandler(p)
          \/ TestOrderHandler(p)
          \/ StripeHandler(p)
          \/ QueryFail(p)
          \/ CommitFail(p)

SpecLedger == Init /\ [][NextLedger]_vars

\* Order creation over several days, on a database whose order sequence is
\* fresh or has already run up to HighSeq.
NextTracking ==
    \/ NextDay
    \/ \E p \in Slots :
          \/ TrackingStart(p)
          \/ CreateHandler(p)
          \/ TestOrderHandler(p)
          \/ QueryFail(p)
          \/ CommitFail(p)

SpecTracking == InitTracking /\ [][NextTracking]_vars

----------------------------------------------------------------------------
(* DELETE /orders/:id and DELETE /customers/:id
   (middleware/validation.js lines 952-1040) *)

\* SELECT id, tracking_id FROM orders WHERE id = $1
DeleteOrder_Select(p) ==
    /\ pc[p] = "do_select"
    /\ IF req[p].orderId \in DOMAIN orders
       THEN /\ Goto(p, "do_delete")
            /\ UNCHANGED <<db, tx, lock, resp, loc, pool>>
       ELSE /\ rollbackTransaction(p)
            /\ Respond(p, 404, "Order not found")
    /\ UNCHANGED <<orders_id_seq, customers_id_seq, nreq, tiers, today, gateway>>

\* DELETE FROM order_status_history, payments, order_deliverables WHERE
\* order_id = $1, then DELETE FROM orders WHERE id = $1, which waits for the
\* row's lock.  Rows of the three tables that are inserted for the order
\* before the COMMIT go with it through ON DELETE CASCADE.
\* A handler that sends the DELETE of the history rows through the pool's
\* query(), outside the transaction that deletes the order.
DeleteOrder_Delete_Autocommit(p) ==
    /\ pc[p] = "do_delete"
    /\ CanUpdateOrder(p, req[p].orderId)
    /\ IF req[p].orderId \in DOMAIN orders
       THEN /\ history' = [history EXCEPT ![req[p].orderId] = <<>>]
            /\ tx' = [tx EXCEPT ![p].delord = @ \cup {req[p].orderId}]
            /\ lock' = [lock EXCEPT ![req[p].orderId] = p]
       ELSE UNCHANGED <<history, tx, lock>>
    /\ Goto(p, "do_commit")
    /\ UNCHANGED <<orders, payments, customers, deliverables, orders_id_seq,
                   customers_id_seq, loc, resp, nreq, tiers, today, pool, gateway>>

DeleteOrder_Delete(p) ==
    /\ pc[p] = "do_delete"
    /\ CanUpdateOrder(p, req[p].orderId)
    /\ IF req[p].orderId \in DOMAIN orders
       THEN /\ tx' = [tx EXCEPT ![p].delord = @ \cup {req[p].orderId}]
            /\ lock' = [lock EXCEPT ![req[p].orderId] = p]
       ELSE UNCHANGED <<tx, lock>>
    /\ Goto(p, "do_commit")
    /\ UNCHANGED <<db, orders_id_seq, customers_id_seq, loc, resp, nreq, tiers, today, pool, gateway>>

DeleteOrder_Commit(p) ==
    /\ pc[p] = "do_commit"
    /\ commitTransaction(p)
    /\ Respond(p, 200, "Order deleted successfully")
    /\ UNCHANGED <<orders_id_seq, customers_id_seq, nreq, tiers, today, gateway>>

\* SELECT id, email FROM customers WHERE id = $1
DeleteCustomer_Select(p) ==
    /\ pc[p] = "dc_select"
    /\ IF req[p].customerId \in DOMAIN customers
       THEN /\ Goto(p, "dc_count")
            /\ UNCHANGED <<db, tx, lock, resp, loc, pool>>
       ELSE /\ rollbackTransaction(p)
            /\ Respond(p, 404, "Customer not found")
    /\ UNCHANGED <<orders_id_seq, customers_id_seq, nreq, tiers, today, gateway>>

OrdersOf(rows, c) == {o \in DOMAIN rows : rows[o].customer_id = c}

\* SELECT COUNT(*) FROM orders WHERE customer_id = $1: the committed orders.
DeleteCustomer_Count(p) ==
    /\ pc[p] = "dc_count"
    /\ IF Cardinality(OrdersOf(orders, req[p].customerId)) > 0
       THEN /\ rollbackTransaction(p)
            /\ Respond(p, 400, "Cannot delete customer with existing orders")
       ELSE /\ Goto(p, "dc_delete")
            /\ UNCHANGED <<db, tx, lock, resp, loc, pool>>
    /\ UNCHANGED <<orders_id_seq, customers_id_seq, nreq, tiers, today, gateway>>

\* DELETE FROM customers WHERE id = $1.  The statement waits while another
\* transaction has written the customer's row, has inserted an order that
\* refers to it (the foreign key's lock on the customer), or holds the lock
\* of one of the customer's orders.  orders.customer_id is declared ON DELETE
\* CASCADE: the orders of the customer that are committed by then are
\* deleted with it.
DeleteCustomer_Delete(p) ==
    /\ pc[p] = "dc_delete"
    /\ LET c == req[p].customerId
           cascade == OrdersOf(orders, c)
       IN /\ ~CustomerRowBusy(p, c)
          /\ \A q \in Slots \ {p} : OrdersOf(tx[q].ord, c) = {}
          /\ \A o \in cascade : lock[o] \in {0, p}
          /\ IF c \in DOMAIN customers
             THEN /\ tx' = [tx EXCEPT ![p].delcust = @ \cup {c},
                                      ![p].delord = @ \cup cascade]
                  /\ lock' = [o \in OrderIds |-> IF o \in cascade THEN p ELSE lock[o]]
             ELSE UNCHANGED <<tx, lock>>
    /\ Goto(p, "dc_commit")
    /\ UNCHANGED <<db, orders_id_seq, customers_id_seq, loc, resp, nreq, tiers, today, pool, gateway>>

DeleteCustomer_Commit(p) ==
    /\ pc[p] = "dc_commit"
    /\ commitTransaction(p)
    /\ Respond(p, 200, "Customer deleted successfully")
    /\ UNCHANGED <<orders_id_seq, customers_id_seq, nreq, tiers, today, gateway>>

DeleteOrderHandler(p) ==
    \/ DeleteOrder_Select(p)
    \/ DeleteOrder_Delete(p)
    \/ DeleteOrder_Commit(p)

DeleteCustomerHandler(p) ==
    \/ DeleteCustomer_Select(p)
    \/ DeleteCustomer_Count(p)
    \/ DeleteCustomer_Delete(p)
    \/ DeleteCustomer_Commit(p)

\* The administration of customers: a customer has registered with an order
\* that the administrator has deleted since.  Orders come in for the
\* customer's email while the administrator deletes orders and the customer.
CustomerRequests ==
    [kind : {"create"}, customer : {"a@x.io"}, serviceId : {1}, quantity : {1}]
        \cup [kind : {"test"}, customer : {"a@x.io"}, cart : {<<1>>}]
        \cup [kind : {"delorder"}, orderId : {3}]
        \cup [kind : {"delcustomer"}, customerId : {1}]

CustomersStart(p) == Accept(p, CustomerRequests)

InitCustomers ==
    /\ orders = EmptyFn
    /\ payments = EmptyFn
    /\ history = EmptyFn
    /\ customers = (1 :> [email |-> "a@x.io", name |-> "new"])
    /\ deliverables = {}
    /\ orders_id_seq = 2
    /\ customers_id_seq = 1
    /\ pc = [p \in Slots |-> "idle"]
    /\ req = [p \in Slots |-> NoReq]
    /\ loc = [p \in Slots |-> NoLoc]
    /\ tx = [p \in Slots |-> NoTx]
    /\ lock = [o \in OrderIds |-> 0]
    /\ resp = [p \in Slots |-> NoResp]
    /\ nreq = 0
    /\ pool = NoPool
    /\ tiers = InitialTiers
    /\ today = 1
    /\ paypalService = NoToken
    /\ auth = NoAuth

NextCustomers ==
    \E p \in Slots :
        \/ CustomersStart(p)
        \/ CreateHandler(p)
        \/ TestOrderHandler(p)
        \/ DeleteOrderHandler(p)
        \/ DeleteCustomerHandler(p)
        \/ QueryFail(p)
        \/ CommitFail(p)

SpecCustomers == InitCustomers /\ [][NextCustomers]_vars

----------------------------------------------------------------------------
(* Quantities (middleware/validation.js lines 4-47, part_002 lines 24-27) *)

\* body('quantity').optional().isInt({ min: 1, max: 100 })
validateOrderCreation(r) == r.quantity \in 1..100

\* handleValidationErrors: POST /create is answered 400 before its handler
\* runs; nothing is read or written.
handleValidationErrors(p, requests) ==
    /\ pc[p] = "idle"
    /\ \A q \in Slots : q < p => pc[q] # "idle"
    /\ nreq < MaxReq
    /\ \E r \in requests : r.kind = "create" /\ ~validateOrderCreation(r)
    /\ resp' = [resp EXCEPT ![p] = [code |-> 400, message |-> "Validation failed"]]
    /\ nreq' = nreq + 1
    /\ UNCHANGED <<db, orders_id_seq, customers_id_seq, pc, req, loc, tx, lock, tiers,
                   today, pool, gateway>>

\* Requests with quantities at and around the limits.  Only POST /create is
\* mounted behind validateOrderCreation; /test-order and
\* /confirm-stripe-payment take the quantity from the cart item.
CreateQuantities == {0, 1, 100, 101}
CartQuantities == {<<0>>, <<2>>, <<101>>}
QuantityRequests ==
    [kind : {"create"}, customer : Emails, serviceId : {1}, quantity : CreateQuantities]
        \cup [kind : {"test"}, customer : Emails, cart : {<<1>>}, qty : CartQuantities]
        \cup [kind : {"stripe"}, customer : Emails, cart : {<<1>>}, qty : {<<-1>>},
              paymentIntentId : {"pi_1"}]

QuantityStart(p) ==
    Accept(p, {r \in QuantityRequests : r.kind = "create" => validateOrderCreation(r)})

NextQuantity ==
    \E p \in Slots :
        \/ QuantityStart(p)
        \/ handleValidationErrors(p, QuantityRequests)
        \/ CreateHandler(p)
        \/ TestOrderHandler(p)
        \/ StripeHandler(p)
        \/ QueryFail(p)
        \/ CommitFail(p)

\* The operator has priced tier 1 at 0.07.
InitQuantity ==
    /\ orders = EmptyFn
    /\ payments = EmptyFn
    /\ history = EmptyFn
    /\ customers = EmptyFn
    /\ deliverables = {}
    /\ orders_id_seq = 0
    /\ customers_id_seq = 0
    /\ pc = [p \in Slots |-> "idle"]
    /\ req = [p \in Slots |-> NoReq]
    /\ loc = [p \in Slots |-> NoLoc]
    /\ tx = [p \in Slots |-> NoTx]
    /\ lock = [o \in OrderIds |-> 0]
    /\ resp = [p \in Slots |-> NoResp]
    /\ nreq = 0
    /\ pool = NoPool
    /\ tiers = [InitialTiers EXCEPT
                   ![1] = [price |-> 7, is_active |-> TRUE, service_is_active |-> TRUE]]
    /\ today = 1
    /\ paypalService = NoToken
    /\ auth = NoAuth

SpecQuantity == InitQuantity /\ [][NextQuantity]_vars

----------------------------------------------------------------------------
(* The connection pool (part_000 lines 12-112; the handlers' exits) *)

\* return res.status(400).json(...) inside the try block with neither
\* rollbackTransaction nor release(): the handler ends, its client stays
\* checked out with the transaction open.
ReturnWithoutRelease(p, code, message) ==
    /\ Respond(p, code, message)
    /\ pool' = [pool EXCEPT !.leaked = @ + 1]
    /\ UNCHANGED <<db, tx, lock, orders_id_seq, customers_id_seq, nreq, tiers, today, gateway>>

\* POST /test-order, part_002 lines 431-436.
Test_CartRequired(p) ==
    /\ pc[p] = "t_cust"
    /\ req[p].cart = <<>>
    /\ ReturnWithoutRelease(p, 400, "Cart is required and must contain at least one item")

\* POST /confirm-stripe-payment, part_002 lines 756-761.
Stripe_IntentRequired(p) ==
    /\ pc[p] = "x_stripe"
    /\ req[p].paymentIntentId = ""
    /\ ReturnWithoutRelease(p, 400, "Payment intent ID is required")

PoolRequests ==
    [kind : {"create"}, customer : Emails, serviceId : {1}, quantity : {1}]
        \cup [kind : {"test"}, customer : Emails, cart : {<<>>, <<1>>}]
        \cup [kind : {"stripe"}, customer : Emails, cart : {<<1>>},
              paymentIntentId : {"", "pi_1"}]

PoolStart(p) == Accept(p, PoolRequests)

PoolHandlers(p) ==
    \/ CreateHandler(p)
    \/ TestOrderHandler(p)
    \/ Test_CartRequired(p)
    \/ StripeHandler(p)
    \/ Stripe_IntentRequired(p)
    \/ QueryFail(p)
    \/ CommitFail(p)

NextPool == \E p \in Slots : PoolStart(p) \/ PoolHandlers(p)

SpecPool == Init /\ [][NextPool]_vars

\* A request arrives while every client of the pool is checked out:
\* pool.connect() inside beginTransaction() queues it.
Queue(p, requests) ==
    /\ pc[p] = "idle"
    /\ \A q \in Slots : q < p => pc[q] # "idle"
    /\ nreq < MaxReq
    /\ CheckedOut >= dbConfig.max
    /\ \E r \in requests : req' = [req EXCEPT ![p] = r]
    /\ pc' = [pc EXCEPT ![p] = "connect"]
    /\ resp' = [resp EXCEPT ![p] = NoResp]
    /\ nreq' = nreq + 1
    /\ pool' = [pool EXCEPT !.client[p] = <<>>]
    /\ UNCHANGED <<db, orders_id_seq, customers_id_seq, loc, tx, lock, tiers, today, gateway>>

\* A client comes back to the pool and is handed to the queued request.
Connect(p) ==
    /\ pc[p] = "connect"
    /\ CheckedOut < dbConfig.max
    /\ pc' = [pc EXCEPT ![p] = FirstLabel(req[p])]
    /\ loc' = [loc EXCEPT ![p].day = today]
    /\ pool' = [pool EXCEPT !.client[p] = <<"BEGIN">>]
    /\ UNCHANGED <<db, orders_id_seq, customers_id_seq, req, tx, lock, resp, nreq, tiers,
                   today, gateway>>

\* connectionTimeoutMillis pass with no client free: pool.connect() rejects.
\* The handlers call beginTransaction() before their try block, so the
\* handler's promise rejects with nothing to catch it and the
\* unhandledRejection handler exits the process.
connectionTimeout(p) ==
    /\ pc[p] = "connect"
    /\ CheckedOut >= dbConfig.max
    /\ ServerExit(p, <<>>)
    /\ UNCHANGED <<orders_id_seq, customers_id_seq, nreq, tiers, today, gateway>>

\* The pool after early returns have left all its clients but one checked
\* out.
InitExhausted ==
    /\ orders = EmptyFn
    /\ payments = EmptyFn
    /\ history = EmptyFn
    /\ customers = EmptyFn
    /\ deliverables = {}
    /\ orders_id_seq = 0
    /\ customers_id_seq = 0
    /\ pc = [p \in Slots |-> "idle"]
    /\ req = [p \in Slots |-> NoReq]
    /\ loc = [p \in Slots |-> NoLoc]
    /\ tx = [p \in Slots |-> NoTx]
    /\ lock = [o \in OrderIds |-> 0]
    /\ resp = [p \in Slots |-> NoResp]
    /\ nreq = 0
    /\ pool = [NoPool EXCEPT !.leaked = dbConfig.max - 1]
    /\ tiers = InitialTiers
    /\ today = 1
    /\ paypalService = NoToken
    /\ auth = NoAuth

NextExhausted ==
    \E p \in Slots :
        \/ PoolStart(p)
        \/ Queue(p, PoolRequests)
        \/ Connect(p)
        \/ connectionTimeout(p)
        \/ PoolHandlers(p)

SpecExhausted == InitExhausted /\ [][NextExhausted]_vars

----------------------------------------------------------------------------
(* Gateway calls inside an open transaction
   (services/paypal.js lines 95-116, services/stripe.js lines 93-116) *)

CaptureHandler(p) ==
    \/ Capture_Select(p)
    \/ Capture_Gateway(p)
    \/ Capture_Check(p)
    \/ Capture_Update(p)
    \/ Capture_Payment(p)
    \/ Capture_History(p)
    \/ Capture_Commit(p)
    \/ Capture_Email(p)
    \/ Capture_Respond(p)

\* A cart is checked out and paid; captures and Stripe confirmations come in.
GatewayRequests ==
    [kind : {"test"}, customer : Emails, cart : {<<1>>}]
        \cup [kind : {"capture"}, orderId : {1}, paypalOrderId : {"PP-A"}]
        \cup [kind : {"stripe"}, customer : Emails, cart : {<<1>>},
              paymentIntentId : {"pi_1"}]

GatewayStart(p) == Accept(p, GatewayRequests)

NextGateway ==
    \E p \in Slots :
        \/ GatewayStart(p)
        \/ TestOrderHandler(p)
        \/ CaptureHandler(p)
        \/ StripeHandler(p)
        \/ QueryFail(p)
        \/ CommitFail(p)

\* The statements a handler runs by itself: every one of them is reached
\* once the one before has returned.  captureOrder awaits axios.post, which
\* is called without a timeout option (axios waits for the answer without
\* limit): that step happens only when PayPal answers.  The Stripe client
\* ends paymentIntents.retrieve by its own timeout, so the handler always
\* comes back from it.
HandlerProgress(p) ==
    \/ TestOrderHandler(p)
    \/ StripeHandler(p)
    \/ Capture_Select(p)
    \/ Capture_Check(p)
    \/ Capture_Update(p)
    \/ Capture_Payment(p)
    \/ Capture_History(p)
    \/ Capture_Commit(p)
    \/ Capture_Email(p)
    \/ Capture_Respond(p)

SpecGateway ==
    Init /\ [][NextGateway]_vars /\ \A p \in Slots : WF_vars(HandlerProgress(p))

----------------------------------------------------------------------------
(* paypalService.getAccessToken (services/paypal.js lines 19-49) *)

\* Everything but the token cache and its callers.
server ==
    <<db, orders_id_seq, customers_id_seq, pc, req, loc, tx, lock, resp, nreq, tiers,
      today, pool>>

\* this.accessToken && this.tokenExpiry && Date.now() < this.tokenExpiry
TokenCached ==
    /\ paypalService.accessToken # 0
    /\ paypalService.tokenExpiry # 0
    /\ auth.now < paypalService.tokenExpiry

\* A request calls getAccessToken: the cached token is returned, or the
\* token request is sent and the call waits for the answer.
getAccessToken(c) ==
    /\ auth.pc[c] = "ready"
    /\ IF TokenCached
       THEN auth' = [auth EXCEPT !.pc[c] = "done", !.got[c] = paypalService.accessToken]
       ELSE auth' = [auth EXCEPT !.pc[c] = "refresh"]
    /\ UNCHANGED <<server, paypalService>>

\* response.data.expires_in in seconds; the clock ticks every 900 ms, so
\* that Date.now() + expires_in * 900 is the clock plus expires_in ticks.
ExpiresIn == {1, 2}

\* The answer arrives: accessToken and tokenExpiry are assigned from it with
\* no await in between, and the call returns this.accessToken.  PayPal
\* numbers its token responses.
getAccessToken_Response(c) ==
    /\ auth.pc[c] = "refresh"
    /\ \E expires_in \in ExpiresIn :
          LET data == [access_token |-> Cardinality(auth.responses) + 1,
                       expires_in |-> expires_in]
              cache == [accessToken |-> data.access_token,
                        tokenExpiry |-> auth.now + data.expires_in]
          IN /\ paypalService' = cache
             /\ auth' = [auth EXCEPT !.pc[c] = "done", !.got[c] = cache.accessToken,
                                      !.responses = @ \cup {cache}]
    /\ UNCHANGED server

\* The token request fails: 'Failed to get PayPal access token' is thrown.
getAccessToken_Error(c) ==
    /\ auth.pc[c] = "refresh"
    /\ auth' = [auth EXCEPT !.pc[c] = "failed"]
    /\ UNCHANGED <<server, paypalService>>

\* Date.now() moves on.
Tick ==
    /\ auth.now < MaxTime
    /\ auth' = [auth EXCEPT !.now = @ + 1]
    /\ UNCHANGED <<server, paypalService>>

NextToken ==
    \/ Tick
    \/ \E c \in Callers :
          \/ getAccessToken(c)
          \/ getAccessToken_Response(c)
          \/ getAccessToken_Error(c)

SpecToken == Init /\ [][NextToken]_vars

----------------------------------------------------------------------------
(* The history of an order while the administrator deletes orders *)

\* A cart is checked out; its order is moved on, captured, delivered and
\* deleted, and the customer is deleted.
HistoryRequests ==
    [kind : {"test"}, customer : Emails, cart : {<<1>>}]
        \cup [kind : {"status"}, orderId : {1}, status : {"in_progress"}]
        \cup [kind : {"capture"}, orderId : {1}, paypalOrderId : {"PP-A"}]
        \cup [kind : {"deliver", "send", "upload", "delorder"}, orderId : {1}]
        \cup [kind : {"delcustomer"}, customerId : {1}]

HistoryStart(p) == Accept(p, HistoryRequests)

StatusHandler(p) ==
    \/ Status_Select(p)
    \/ Status_Update(p)
    \/ Status_History(p)
    \/ Status_Commit(p)

DeliveryHandlers(p) ==
    \/ Deliver_Select(p)
    \/ Deliver_Update(p)
    \/ Deliver_History(p)
    \/ Deliver_Email(p)
    \/ Upload_Insert(p)
    \/ Send_Select(p)
    \/ Send_Email(p)
    \/ Send_Update(p)
    \/ Send_History(p)

NextHistory ==
    \E p \in Slots :
        \/ HistoryStart(p)
        \/ TestOrderHandler(p)
        \/ StatusHandler(p)
        \/ CaptureHandler(p)
        \/ DeliveryHandlers(p)
        \/ DeleteOrderHandler(p)
        \/ DeleteCustomerHandler(p)
        \/ QueryFail(p)
        \/ AutoFail(p)
        \/ CommitFail(p)

SpecHistory == Init /\ [][NextHistory]_vars

----------------------------------------------------------------------------
(* The payment intents Stripe holds *)

\* The payment intent the confirmations name: /create-payment-intent
\* (part_002 lines 667-746) made it for a cart of one unit of tier 1 at the
\* tier's price of that moment, and the customer has paid it.
\* stripeService.confirmPayment returns its amount in paymentInfo.amount.
paymentIntents ==
    [id \in {"pi_1"} |-> [status |-> "succeeded", amount |-> InitialTiers[1].price]]

----------------------------------------------------------------------------
(* PayPal webhooks beside the handlers that insert Payment rows *)

\* A webhook request carries the headers PayPal signs its events with; the
\* signature is PayPal's, or the request is forged.  A cart is checked out,
\* its order is captured, and events come in for the gateway references.
SignedWebhookRequests ==
    [kind : {"webhook"},
     eventType : {"PAYMENT.CAPTURE.COMPLETED", "PAYMENT.CAPTURE.DENIED",
                  "CHECKOUT.ORDER.APPROVED"},
     resourceId : GatewayRefs,
     signature : {"genuine", "forged"}]

WebhookSpecRequests ==
    SignedWebhookRequests
        \cup [kind : {"test"}, customer : Emails, cart : {<<1>>}]
        \cup [kind : {"capture"}, orderId : {1}, paypalOrderId : GatewayRefs]

WebhookStart(p) == Accept(p, WebhookSpecRequests)

NextWebhook ==
    \E p \in Slots :
        \/ WebhookStart(p)
        \/ TestOrderHandler(p)
        \/ CaptureHandler(p)
        \/ Webhook_Event(p)
        \/ QueryFail(p)
        \/ CommitFail(p)

SpecWebhook == Init /\ [][NextWebhook]_vars

----------------------------------------------------------------------------
(* beginTransaction (part_000 lines 92-96) when BEGIN fails *)

\* const client = await pool.connect(); await client.query("BEGIN"): the
\* pool has handed out a client and the BEGIN on it is rejected (the
\* connection broke, the server is shutting down).  Nothing stands between
\* the two awaits and the return: no try, no release().  beginTransaction
\* throws with the client checked out, and the handler, which calls it
\* before its try block, rejects.
beginTransaction_BeginFails(p, requests) ==
    /\ pc[p] = "idle"
    /\ \A q \in Slots : q < p => pc[q] # "idle"
    /\ nreq < MaxReq
    /\ CheckedOut < dbConfig.max
    /\ \E r \in requests : req' = [req EXCEPT ![p] = r]
    /\ pc' = [pc EXCEPT ![p] = "rejected"]
    /\ resp' = [resp EXCEPT ![p] = NoResp]
    /\ nreq' = nreq + 1
    /\ pool' = [pool EXCEPT !.client[p] = <<"BEGIN">>]
    /\ UNCHANGED <<db, orders_id_seq, customers_id_seq, loc, tx, lock, tiers, today, gateway>>

\* The rejection of the handler's promise reaches the unhandledRejection
\* handler, which exits the process.
unhandledRejection(p) ==
    /\ pc[p] = "rejected"
    /\ ServerExit(p, <<>>)
    /\ UNCHANGED <<orders_id_seq, customers_id_seq, nreq, tiers, today, gateway>>

NextBegin ==
    \E p \in Slots :
        \/ PoolStart(p)
        \/ beginTransaction_BeginFails(p, PoolRequests)
        \/ unhandledRejection(p)
        \/ Queue(p, PoolRequests)
        \/ Connect(p)
        \/ connectionTimeout(p)
        \/ PoolHandlers(p)

SpecBegin == InitExhausted /\ [][NextBegin]_vars

----------------------------------------------------------------------------
(* Properties *)

\* The step is taken by the handler in slot p and by no other.
OwnStep(p) ==
    /\ pc'[p] # pc[p]
    /\ \A q \in Slots \ {p} : pc'[q] = pc[q] /\ resp'[q] = resp[q]

MismatchResponse == [code |-> 400, message |-> "Payment amount mismatch"]
CaptureNote == "Payment received and confirmed"
CountRows(rows, Test(_)) == Cardinality({i \in 1..Len(rows) : Test(rows[i])})
Last(rows) == rows[Len(rows)]

\* The state machine of order statuses, as pairs (from, to).
LegalEdges ==
    {<<"pending", "confirmed">>, <<"confirmed", "in_progress">>,
     <<"in_progress", "completed">>, <<"pending", "cancelled">>,
     <<"confirmed", "cancelled">>, <<"confirmed", "completed">>}
TerminalStatuses == {"completed", "cancelled"}

\* C1: a capture-payment call for an order that already has a paid Payment
\* row with the call's gateway reference and the same matching amount
\* changes nothing when it commits: the order row, its Payment rows and its
\* history rows are the same before and after.
C1_DuplicateCaptureMutatesNothing ==
    [][\A p \in Slots :
          (/\ pc[p] = "k_commit"
           /\ pc'[p] = "k_email"
           /\ loc[p].amount = loc[p].total
           /\ \E i \in 1..Len(payments[req[p].orderId]) :
                 LET row == payments[req[p].orderId][i] IN
                 /\ row.status = "paid"
                 /\ row.payment_id = req[p].paypalOrderId
                 /\ row.amount = loc[p].amount)
          => UNCHANGED <<orders, payments, history>>]_vars

\* C2: when two capture-payment calls for the same order and the same
\* gateway reference have both committed while both were in flight, the order
\* has exactly one paid Payment row with that reference and exactly one
\* 'confirmed' history entry.
C2_ConcurrentCaptureSettlesOnce ==
    \A p, q \in Slots :
        (/\ p # q
         /\ pc[p] = "k_email"
         /\ pc[q] = "k_email"
         /\ req[p].orderId = req[q].orderId
         /\ req[p].paypalOrderId = req[q].paypalOrderId)
        => LET o == req[p].orderId
               PaidHere(r) == r.status = "paid" /\ r.payment_id = req[p].paypalOrderId
               Confirmed(r) == r.status = "confirmed"
           IN /\ CountRows(payments[o], PaidHere) = 1
              /\ CountRows(history[o], Confirmed) = 1

\* C3: a capture-payment call changes no committed row before its amount
\* check, and when the amount the gateway reported differs from the order's
\* total by more than 0.01 the check answers 400 'Payment amount mismatch',
\* ends the handler with its transaction rolled back and its locks released,
\* and leaves every committed row as it was.
C3_AmountMismatchRejected ==
    [][\A p \in Slots :
          (OwnStep(p) /\ pc[p] \in {"k_select", "k_gateway", "k_check"})
          => /\ UNCHANGED db
             /\ (/\ pc[p] = "k_check"
                 /\ \/ loc[p].amount - loc[p].total > 1
                    \/ loc[p].total - loc[p].amount > 1)
                => /\ resp'[p] = MismatchResponse
                   /\ pc'[p] = "idle"
                   /\ tx'[p] = NoTx
                   /\ \A o \in OrderIds : lock'[o] # p]_vars

\* C3 witness: a call was answered with the mismatch error and the order it
\* named is still pending/pending without any Payment row.
C3_Witness ==
    \E p \in Slots : \E o \in DOMAIN orders :
        /\ resp[p] = MismatchResponse
        /\ orders[o].status = "pending"
        /\ orders[o].payment_status = "pending"
        /\ payments[o] = <<>>
        /\ Len(history[o]) = 1

\* C4: for an order that exists, the writes of a settlement become visible
\* in one step or not at all: whenever a Payment row is added, or the
\* payment status becomes paid, or a history entry with the note 'Payment
\* received and confirmed' is added, that same step adds exactly one Payment
\* row (paid), leaves the order paid and confirmed, and adds exactly one such
\* history entry as the order's latest.
C4_AtomicSettlement ==
    [][\A o \in DOMAIN orders :
          LET IsNote(r) == r.notes = CaptureNote IN
          (\/ Len(payments'[o]) # Len(payments[o])
           \/ orders[o].payment_status # "paid" /\ orders'[o].payment_status = "paid"
           \/ CountRows(history'[o], IsNote) # CountRows(history[o], IsNote))
          => /\ Len(payments'[o]) = Len(payments[o]) + 1
             /\ Last(payments'[o]).status = "paid"
             /\ Last(payments'[o]).payment_method = "paypal"
             /\ orders'[o].payment_status = "paid"
             /\ orders'[o].status = "confirmed"
             /\ CountRows(history'[o], IsNote) = CountRows(history[o], IsNote) + 1
             /\ Last(history'[o]).notes = CaptureNote
             /\ Last(history'[o]).status = "confirmed"]_vars

\* C4 witness: a capture has committed: the order is paid and confirmed, has
\* its paid Payment row and the settlement's history entry, and the handler
\* has not answered yet.
C4_Witness ==
    \E p \in Slots :
        /\ pc[p] = "k_email"
        /\ orders[req[p].orderId].payment_status = "paid"
        /\ orders[req[p].orderId].status = "confirmed"
        /\ Len(payments[req[p].orderId]) = 1
        /\ Last(payments[req[p].orderId]).payment_id = req[p].paypalOrderId
        /\ Last(history[req[p].orderId]).notes = CaptureNote

\* C5: every committed order has at least one history entry, and its latest
\* history entry carries the order's current status.
C5_HistoryMatchesStatus ==
    \A o \in DOMAIN orders :
        /\ Len(history[o]) >= 1
        /\ Last(history[o]).status = orders[o].status

\* C6: the statuses of every order's history entries, in insertion order,
\* start at 'pending' and every consecutive pair is an edge of the state
\* machine (so no status is repeated).
C6_HistoryIsValidWalk ==
    \A o \in DOMAIN orders :
        /\ Len(history[o]) >= 1
        /\ history[o][1].status = "pending"
        /\ \A i \in 1..(Len(history[o]) - 1) :
              <<history[o][i].status, history[o][i + 1].status>> \in LegalEdges

\* C7: an order whose status is 'completed' or 'cancelled' keeps that status
\* in every later step.
C7_TerminalIsAbsorbing ==
    [][\A o \in DOMAIN orders :
          orders[o].status \in TerminalStatuses
          => orders'[o].status = orders[o].status]_vars

\* C8: an admin status update whose (current status, requested status) is
\* not an edge of the state machine is not answered with success and leaves
\* the order row and its history unchanged; and an order becomes 'cancelled'
\* only from 'pending' or 'confirmed'.
C8_IllegalTransitionChangesNothing ==
    [][/\ \A p \in Slots :
             (/\ pc[p] = "a_commit"
              /\ OwnStep(p)
              /\ <<orders[req[p].orderId].status, req[p].status>> \notin LegalEdges)
             => /\ resp'[p].code # 200
                /\ orders'[req[p].orderId] = orders[req[p].orderId]
                /\ history'[req[p].orderId] = history[req[p].orderId]
       /\ \A o \in DOMAIN orders :
             (orders'[o].status = "cancelled" /\ orders[o].status # "cancelled")
             => orders[o].status \in {"pending", "confirmed"}]_vars

\* C9: the commit of /create adds exactly one order, with status 'pending'
\* and payment status 'pending', together with exactly one history entry for
\* it ('pending', 'Order created') and no Payment row, and changes no other
\* order; no other step of the /create handler changes a committed row.
C9_CreateOrderPostState ==
    [][\A p \in Slots :
          (OwnStep(p) /\ req[p].kind = "create")
          => IF pc[p] = "c_commit" /\ pc'[p] = "c_paypal"
             THEN \E o \in OrderIds \ DOMAIN orders :
                     /\ DOMAIN orders' = DOMAIN orders \cup {o}
                     /\ orders'[o].status = "pending"
                     /\ orders'[o].payment_status = "pending"
                     /\ Len(history'[o]) = 1
                     /\ history'[o][1].status = "pending"
                     /\ history'[o][1].notes = "Order created"
                     /\ payments'[o] = <<>>
                     /\ \A x \in DOMAIN orders :
                           /\ orders'[x] = orders[x]
                           /\ history'[x] = history[x]
                           /\ payments'[x] = payments[x]
             ELSE UNCHANGED db]_vars

\* C9 witness: /create has committed and is about to call the gateway; its
\* order is pending/pending with its single 'Order created' entry.
C9_Witness ==
    \E p \in Slots :
        /\ pc[p] = "c_paypal"
        /\ loc[p].orderId \in DOMAIN orders
        /\ orders[loc[p].orderId].status = "pending"
        /\ orders[loc[p].orderId].payment_status = "pending"
        /\ Len(history[loc[p].orderId]) = 1
        /\ history[loc[p].orderId][1].notes = "Order created"

\* C10: when a capture with the matching amount commits for an order that
\* has only its creation entry and no Payment row, the order is then paid and
\* confirmed and has exactly two history entries, 'pending' then 'confirmed'.
C10_TwoHistoryEntriesAfterCapture ==
    [][\A p \in Slots :
          (/\ pc[p] = "k_commit"
           /\ pc'[p] = "k_email"
           /\ loc[p].amount = loc[p].total
           /\ history[req[p].orderId] = CreateHistoryRows(req[p].orderId)
           /\ payments[req[p].orderId] = <<>>)
          => /\ orders'[req[p].orderId].payment_status = "paid"
             /\ orders'[req[p].orderId].status = "confirmed"
             /\ Len(history'[req[p].orderId]) = 2
             /\ history'[req[p].orderId][1].status = "pending"
             /\ history'[req[p].orderId][2].status = "confirmed"]_vars

----------------------------------------------------------------------------
(* The order ledger: prices and tracking codes *)

Snapshot(row) ==
    [service_tier_id |-> row.service_tier_id, service_price |-> row.service_price,
     quantity |-> row.quantity, total_amount |-> row.total_amount]

\* The unit price and the quantity the handler in slot p is about to store.
PriceRead(p, row) ==
    IF req[p].kind = "create" THEN loc[p].price ELSE tiers[row.service_tier_id].price
QuantityAsked(p) == IF req[p].kind = "create" THEN req[p].quantity ELSE CartQuantity(p)

\* C11: every order's total is its stored unit price times its quantity,
\* exactly, in cents; the stored unit price is the catalog price the creating
\* handler read (POST /create reads it in its tier query, the cart handlers
\* when they insert); and no step, a later edit of the catalog row included,
\* changes the tier, unit price, quantity or total of an existing order.
C11_PriceSnapshot ==
    /\ [](\A o \in DOMAIN orders :
             orders[o].total_amount = orders[o].service_price * orders[o].quantity)
    /\ [][/\ \A o \in DOMAIN orders :
                /\ o \in DOMAIN orders'
                /\ Snapshot(orders'[o]) = Snapshot(orders[o])
          /\ \A p \in Slots :
                /\ (pc[p] = "c_tier" /\ pc'[p] = "c_cust")
                      => loc'[p].price = tiers[req[p].serviceId].price
                /\ \A o \in DOMAIN tx'[p].ord \ DOMAIN tx[p].ord :
                      LET row == tx'[p].ord[o] IN
                      /\ row.service_price = PriceRead(p, row)
                      /\ row.quantity = QuantityAsked(p)
                      /\ row.total_amount = row.service_price * row.quantity]_vars

\* C11 witness: an order of three units stands at its old unit price and total
\* after the operator has changed the price of its tier and switched it off.
C11_Witness ==
    \E o \in DOMAIN orders :
        /\ orders[o].quantity = 3
        /\ orders[o].service_price = 45000
        /\ orders[o].total_amount = 135000
        /\ tiers[orders[o].service_tier_id].price = 7
        /\ ~tiers[orders[o].service_tier_id].is_active

DecimalDigits == 0..9

\* SEO-YYYYMMDD-NNNN: the prefix, a date no later than today, four digits.
WellFormedTrackingId(t) ==
    /\ t.prefix = "SEO"
    /\ t.date \in 1..today
    /\ Len(t.number) = TrackingDigits
    /\ \A i \in 1..Len(t.number) : t.number[i] \in DecimalDigits

\* C12: in every reachable state no two orders have the same tracking code,
\* and every order's code is 'SEO', a date and four digits; this also holds
\* of the rows that handlers running side by side have inserted and not yet
\* committed.
C12_TrackingCodesUniqueAndWellFormed ==
    LET pending == UNION {{tx[p].ord[o].tracking_id : o \in DOMAIN tx[p].ord} : p \in Slots}
    IN /\ \A o1, o2 \in DOMAIN orders :
             o1 # o2 => orders[o1].tracking_id # orders[o2].tracking_id
       /\ \A p \in Slots : \A o \in DOMAIN tx[p].ord :
             /\ tx[p].ord[o].tracking_id \notin TrackingIds(orders)
             /\ \A q \in Slots \ {p} :
                   tx[p].ord[o].tracking_id \notin TrackingIds(tx[q].ord)
       /\ \A t \in TrackingIds(orders) \cup pending : WellFormedTrackingId(t)

\* The index at work: the sequence had run up to HighSeq; one order of today
\* is committed, the sequence has been drawn from for a second one, and that
\* handler has answered 500 and left nothing behind.
C12_IndexRefusal ==
    /\ orders_id_seq = HighSeq + 4
    /\ \E o \in DOMAIN orders : orders[o].tracking_id.date = today
    /\ Cardinality(DOMAIN orders) = 1
    /\ \A p \in Slots : tx[p].ord = EmptyFn
    /\ \E p \in Slots : resp[p].code = 500

\* C12 witness: concurrent creation; both slots hold an inserted order of the
\* same day that is not committed yet.
C12_Witness ==
    \E o1 \in DOMAIN tx[1].ord : \E o2 \in DOMAIN tx[2].ord :
        tx[1].ord[o1].tracking_id.date = tx[2].ord[o2].tracking_id.date

\* The number a string of decimal digits writes.
RECURSIVE NumberOf(_)
NumberOf(s) ==
    IF s = <<>> THEN 0 ELSE 10 * NumberOf(SubSeq(s, 1, Len(s) - 1)) + s[Len(s)]

\* The sequence value an order's tracking code was made of: the INSERT draws
\* the order's id and then, in the trigger, the value for the code.
TrackingValue(o) == o + 1

\* C13: the numeric part of every order's tracking code has at least four
\* digits and writes the whole sequence value the code was made of, and of
\* two orders of the same day the later one has the strictly larger number.
C13_TrackingNumberCarriesAllDigits ==
    /\ \A o \in DOMAIN orders :
          /\ Len(orders[o].tracking_id.number) >= TrackingDigits
          /\ NumberOf(orders[o].tracking_id.number) = TrackingValue(o)
    /\ \A o1, o2 \in DOMAIN orders :
          (o1 < o2 /\ orders[o1].tracking_id.date = orders[o2].tracking_id.date)
              => NumberOf(orders[o1].tracking_id.number)
                     < NumberOf(orders[o2].tracking_id.number)

----------------------------------------------------------------------------
(* Payments *)

HasPaymentRef(rows, ref) == \E i \in 1..Len(rows) : rows[i].payment_id = ref

\* C14: when a capture that the gateway did not complete reaches its commit,
\* the commit adds a Payment row with status 'failed', leaves the order's
\* payment status 'failed' and does not change the order's status; and when
\* a PAYMENT.CAPTURE.DENIED webhook names a payment of an order, the order
\* then has a failed Payment row and payment status 'failed', its status
\* unchanged.
C14_FailedPaymentKeepsPipeline ==
    [][\A p \in Slots :
          OwnStep(p)
          => /\ (/\ pc[p] = "k_commit"
                 /\ pc'[p] = "k_email"
                 /\ loc[p].captureStatus # "COMPLETED")
                => LET o == req[p].orderId IN
                   /\ orders'[o].status = orders[o].status
                   /\ orders'[o].payment_status = "failed"
                   /\ Len(payments'[o]) = Len(payments[o]) + 1
                   /\ Last(payments'[o]).status = "failed"
             /\ (/\ pc[p] = "w_event"
                 /\ req[p].eventType = "PAYMENT.CAPTURE.DENIED")
                => \A o \in DOMAIN orders :
                      HasPaymentRef(payments[o], req[p].resourceId)
                      => /\ orders'[o].status = orders[o].status
                         /\ orders'[o].payment_status = "failed"
                         /\ \E i \in 1..Len(payments'[o]) :
                               payments'[o][i].status = "failed"]_vars

CaptureFailure == [code |-> 500, message |-> "Failed to capture payment"]
BeforeCaptureCommit == {"k_select", "k_gateway", "k_check", "k_update", "k_payment", "k_hist"}

IsPaid(r) == r.status = "paid"
OnlyPaymentRef(rows, ref) == \A i \in 1..Len(rows) : rows[i].payment_id = ref

\* C16: for an order whose Payment rows, if any, all belong to one gateway
\* payment: when a completed capture of the matching amount for that payment
\* commits, whether it is the first to arrive or not, the order then has
\* exactly one paid Payment row, payment status 'paid' and status
\* 'confirmed'; and when a PAYMENT.CAPTURE.COMPLETED webhook for that payment
\* has been processed after a capture, the order has exactly one paid
\* Payment row and payment status 'paid', its status as before.
C16_CallbackOrderIndependence ==
    [][\A p \in Slots :
          OwnStep(p)
          => /\ (/\ pc[p] = "k_commit"
                 /\ pc'[p] = "k_email"
                 /\ loc[p].captureStatus = "COMPLETED"
                 /\ loc[p].amount = loc[p].total
                 /\ OnlyPaymentRef(payments[req[p].orderId], req[p].paypalOrderId))
                => LET o == req[p].orderId IN
                   /\ CountRows(payments'[o], IsPaid) = 1
                   /\ orders'[o].payment_status = "paid"
                   /\ orders'[o].status = "confirmed"
             /\ (/\ pc[p] = "w_event"
                 /\ req[p].eventType = "PAYMENT.CAPTURE.COMPLETED")
                => \A o \in DOMAIN orders :
                      (/\ payments[o] # <<>>
                       /\ OnlyPaymentRef(payments[o], req[p].resourceId))
                      => /\ CountRows(payments'[o], IsPaid) = 1
                         /\ orders'[o].payment_status = "paid"
                         /\ orders'[o].status = orders[o].status]_vars

\* C17: in every reachable state every order has at most one Payment row
\* whose status is 'paid'.
C17_AtMostOnePaidPayment ==
    \A o \in DOMAIN orders : CountRows(payments[o], IsPaid) <= 1

\* C18: the confirmation e-mail of capture-payment is attempted only when
\* the handler's transaction is closed and its writes are committed (the
\* order is paid and confirmed and has a paid Payment row with the call's
\* gateway reference); neither the attempt nor the response that follows
\* changes a committed row, and the response is the success response whether
\* the e-mail was sent or failed.
C18_EmailAfterCommit ==
    [][\A p \in Slots :
          (OwnStep(p) /\ pc[p] \in {"k_email", "k_respond"})
          => /\ tx[p] = NoTx
             /\ \A o \in OrderIds : lock[o] # p
             /\ orders[req[p].orderId].payment_status = "paid"
             /\ HasPaymentRef(payments[req[p].orderId], req[p].paypalOrderId)
             /\ UNCHANGED db
             /\ pc[p] = "k_email" => pc'[p] = "k_respond" /\ loc'[p].mail \in MailOutcomes
             /\ pc[p] = "k_respond" => resp'[p] = CaptureSuccess /\ pc'[p] = "idle"]_vars

\* C18 witness: the e-mail has failed after the commit; the order is paid and
\* confirmed with its paid Payment row, and the response is still to come.
C18_Witness ==
    \E p \in Slots :
        /\ pc[p] = "k_respond"
        /\ loc[p].mail = "failed"
        /\ orders[req[p].orderId].payment_status = "paid"
        /\ orders[req[p].orderId].status = "confirmed"
        /\ CountRows(payments[req[p].orderId], IsPaid) = 1

----------------------------------------------------------------------------
(* Status transitions *)

TriggerNote == "Status changed automatically"

\* C19: a failure of the customer notification never makes an operation that
\* changes an order's status answer with a failure, and never keeps the
\* status from changing: the admin status update answers success when its
\* commit changes the order, deliver answers success after its e-mail step
\* (its status change is committed by then), and send-deliverables goes on
\* from its e-mail step to the status update.
C19_NotificationIsolation ==
    [][\A p \in Slots :
          OwnStep(p)
          => /\ (pc[p] = "a_commit" /\ orders' # orders) => resp'[p].code = 200
             /\ pc[p] = "d_email" => resp'[p].code = 200
             /\ pc[p] = "s_email" => pc'[p] = "s_update"]_vars

\* C20: whenever a step changes the committed status of an order, the same
\* step adds the history entry the operation wrote for it: the order's
\* latest entry is then a new one that carries the new status and is not the
\* trigger's 'Status changed automatically' row.
C20_TransitionAtomicity ==
    [][\A o \in DOMAIN orders :
          orders'[o].status # orders[o].status
          => /\ Len(history'[o]) > Len(history[o])
             /\ Last(history'[o]).status = orders'[o].status
             /\ Last(history'[o]).notes # TriggerNote]_vars

\* C21: when an admin status update asking for 'completed' commits on an
\* order that is 'confirmed', the order becomes 'completed' and exactly one
\* history entry, with status 'completed', is appended; when one asking for
\* 'in_progress' reaches its commit on an order that is 'completed', it is
\* not answered with success and the order and its history stay as they are.
C21_DirectCompletionLegal ==
    [][\A p \in Slots :
          (OwnStep(p) /\ pc[p] = "a_commit" /\ req[p].orderId \in DOMAIN orders)
          => LET o == req[p].orderId IN
             /\ (/\ orders[o].status = "confirmed"
                 /\ req[p].status = "completed"
                 /\ resp'[p].code = 200)
                => /\ orders'[o].status = "completed"
                   /\ Len(history'[o]) = Len(history[o]) + 1
                   /\ Last(history'[o]).status = "completed"
             /\ (orders[o].status = "completed" /\ req[p].status = "in_progress")
                => /\ resp'[p].code # 200
                   /\ orders'[o] = orders[o]
                   /\ history'[o] = history[o]]_vars

----------------------------------------------------------------------------
(* Order creation: tiers, customers, quantities, failures *)

TierLookupLabels == {"c_tier", "t_order", "x_order"}

\* The tier the handler in slot p is about to look up.
TierAsked(p) == IF req[p].kind = "create" THEN req[p].serviceId ELSE req[p].cart[loc[p].i]

\* C22: on /create, /test-order and /confirm-stripe-payment the tier lookup
\* lets the handler go on only when the tier and its parent service are both
\* active; otherwise the step ends the request with its transaction rolled
\* back and no committed row changed, with the client error 400 (or the
\* handler's 500 when the statement itself failed), also when earlier cart
\* items of the request had been inserted; and 400 is answered at the lookup
\* only for such a tier.
C22_InvalidTierRollsBack ==
    [][\A p \in Slots :
          (OwnStep(p) /\ pc[p] \in TierLookupLabels)
          => LET t == TierAsked(p)
                 resolves == tiers[t].is_active /\ tiers[t].service_is_active
             IN /\ UNCHANGED db
                /\ resp'[p].code = 400 => ~resolves
                /\ ~resolves
                      => /\ pc'[p] = "idle"
                         /\ tx'[p] = NoTx
                         /\ \A o \in OrderIds : lock'[o] # p
                         /\ resp'[p].code \in {400, 500}
                         /\ resp'[p].code = 500
                               => resp'[p].message = FailureMessage(req[p].kind)]_vars

\* C22 witness: the only request so far was a cart whose first item was
\* inserted (the order sequence has advanced) and whose second item named an
\* inactive tier: it was answered 400 and no customer or order exists.
C22_Witness ==
    \E p \in Slots :
        /\ nreq = 1
        /\ orders_id_seq = 2
        /\ customers_id_seq = 1
        /\ resp[p].code = 400
        /\ orders = EmptyFn
        /\ customers = EmptyFn
        /\ payments = EmptyFn
        /\ history = EmptyFn
        /\ tx[p] = NoTx

CustomerSelectLabels == {"c_cust", "t_cust", "x_cust"}
CustomerInsertLabels == {"c_cust_ins", "t_cust_ins", "x_cust_ins"}
OrderInsertLabels == {"c_order", "t_order", "x_order"}

\* C23: in every state at most one customer has a given email; a handler
\* that looks the customer up and finds one goes on with that customer's id,
\* and reaches its order insert with the customer's name and website updated
\* in its transaction; and a handler that is about to insert the customer
\* while one with the email has been committed by another request goes on
\* with that customer's id.
C23_CustomerUpsertIdentity ==
    /\ [](\A c1, c2 \in DOMAIN customers :
             customers[c1].email = customers[c2].email => c1 = c2)
    /\ [][\A p \in Slots :
             OwnStep(p)
             => LET found == CustomerByEmail(customers, req[p].customer) IN
                /\ (pc[p] \in CustomerSelectLabels /\ found # {} /\ pc'[p] # "idle")
                   => loc'[p].customerId \in found
                /\ (/\ pc[p] \in CustomerSelectLabels \cup {"c_cust_upd"}
                    /\ found # {}
                    /\ pc'[p] \in OrderInsertLabels)
                   => /\ loc'[p].customerId \in DOMAIN tx'[p].cust
                      /\ tx'[p].cust[loc'[p].customerId].name = "updated"
                /\ (pc[p] \in CustomerInsertLabels /\ found # {})
                   => /\ pc'[p] # "idle"
                      /\ loc'[p].customerId \in found]_vars

\* C24: every order's customer exists; and a step of the delete-customer
\* handler removes no order, and removes the customer only when no committed
\* order refers to the customer.
C24_CustomerDeletionGuard ==
    /\ [](\A o \in DOMAIN orders : orders[o].customer_id \in DOMAIN customers)
    /\ [][\A p \in Slots :
             (OwnStep(p) /\ req[p].kind = "delcustomer")
             => /\ DOMAIN orders \subseteq DOMAIN orders'
                /\ (req[p].customerId \in DOMAIN customers \ DOMAIN customers')
                   => OrdersOf(orders, req[p].customerId) = {}]_vars

\* C25: every committed order has a quantity in 1..100 and a positive
\* total.
C25_QuantityBound ==
    \A o \in DOMAIN orders :
        orders[o].quantity \in 1..100 /\ orders[o].total_amount > 0

\* C26: when the handler of POST /create ends without the 201 answer, the
\* order it inserted and the order's history are not in the committed
\* tables.
C26_FailedCreateLeavesNothing ==
    [][\A p \in Slots :
          (/\ req[p].kind = "create"
           /\ pc[p] # "idle"
           /\ pc'[p] = "idle"
           /\ resp'[p].code # 201)
          => /\ loc[p].orderId \notin DOMAIN orders'
             /\ Committed(history', loc[p].orderId) = <<>>]_vars

Released(calls) == \E i \in 1..Len(calls) : calls[i] = "release"

\* C27: a handler that ends has released its client; and when no request is
\* in flight no client is checked out.
C27_NoLeakedConnection ==
    /\ []((\A p \in Slots : pc[p] = "idle") => CheckedOut = 0)
    /\ [][\A p \in Slots :
             (pc[p] # "idle" /\ pc'[p] = "idle") => Released(pool'.client[p])]_vars

\* The calls of a transaction scope that has ended, and the calls of one
\* that is still open.
EndedScopes == {<<"BEGIN", "COMMIT", "release">>, <<"BEGIN", "ROLLBACK", "release">>}
OpenScopes == {<<>>, <<"BEGIN">>}

\* C28: the calls a handler has made on its client are BEGIN, then one
\* COMMIT or one ROLLBACK, then one release(), and nothing after it; a
\* handler that has answered its request has made all three.
C28_TransactionEndProtocol ==
    \A p \in Slots :
        /\ pool.client[p] \in EndedScopes \cup OpenScopes
        /\ (pc[p] = "idle" /\ resp[p].code # 0) => pool.client[p] \in EndedScopes

\* C29: at most dbConfig.max clients are checked out; and a request that
\* was queued for a client and ends without one is answered with a server
\* error, and the handlers of the other requests go on.
C29_PoolExhaustion ==
    /\ [](CheckedOut <= dbConfig.max)
    /\ [][\A p \in Slots :
             (pc[p] = "connect" /\ pc'[p] = "idle")
             => /\ resp'[p].code \in {500, 503}
                /\ \A q \in Slots \ {p} : pc'[q] = pc[q]]_vars

\* The handler of slot p has read the row of order o for a transition and
\* has not committed or rolled back yet.
TransitionLabels ==
    {"k_gateway", "k_check", "k_update", "k_payment", "k_hist", "k_commit",
     "a_update", "a_hist", "a_commit"}
InTransition(p, o) == pc[p] \in TransitionLabels /\ req[p].orderId = o

\* C30: the handler that reads an order's row for a transition holds the
\* row's lock from the read on, so no two handlers are at the same time
\* between their read of the same order and the end of their transaction.
C30_SerializedTransitions ==
    \A o \in OrderIds : \A p, q \in Slots :
        /\ InTransition(p, o) => lock[o] = p
        /\ (InTransition(p, o) /\ InTransition(q, o)) => p = q

GatewayLabels == {"k_gateway", "x_stripe"}

\* C31: a handler that is waiting for the payment gateway inside its
\* transaction eventually ends, whatever the gateway does, and when no
\* request is in flight no transaction is left open.
C31_GatewayTimeout ==
    /\ \A p \in Slots : (pc[p] \in GatewayLabels) ~> (pc[p] = "idle")
    /\ []((\A p \in Slots : pc[p] = "idle") => \A p \in Slots : tx[p] = NoTx)

Refreshing == {c \in Callers : auth.pc[c] = "refresh"}

\* C32: a call that has returned has a token PayPal gave; the cached token
\* and its expiry are from one response; a call goes out for a token only
\* when none is cached or the cached one has expired; and at no time are
\* more than two token requests under way (the one needed and one more).
C32_TokenCacheRace ==
    /\ [](\A c \in Callers :
             auth.pc[c] = "done"
             => \E r \in auth.responses : r.accessToken = auth.got[c])
    /\ [](paypalService = NoToken \/ paypalService \in auth.responses)
    /\ [][\A c \in Callers :
             (auth.pc[c] = "ready" /\ auth'.pc[c] = "refresh") => ~TokenCached]_vars
    /\ [](Cardinality(Refreshing) <= 2)

IsPrefix(s, t) == Len(s) <= Len(t) /\ SubSeq(t, 1, Len(s)) = s

\* C33: the status history is append-only.  Entries exist only for orders
\* that exist; while an order stays, every step leaves the entries it had in
\* place and unchanged (new ones come after them); an order's entries go
\* only in the step that commits a deleting transaction, and that step
\* removes the order row and its payment rows with them.
C33_AppendOnlyHistory ==
    /\ [](DOMAIN history \subseteq DOMAIN orders)
    /\ [][\A o \in DOMAIN orders :
             IF o \in DOMAIN orders'
             THEN /\ o \in DOMAIN history => o \in DOMAIN history'
                  /\ o \in DOMAIN history => IsPrefix(history[o], history'[o])
             ELSE /\ o \notin DOMAIN history'
                  /\ o \notin DOMAIN payments'
                  /\ \E p \in Slots : /\ pc[p] \in {"do_commit", "dc_commit"}
                                      /\ pc'[p] = "idle"
                                      /\ o \in tx[p].delord]_vars

\* An order whose status was changed by the administrator has been deleted
\* with its history.
C33_Witness ==
    /\ resp[1].message = "Order status updated successfully"
    /\ resp[2].message = "Order deleted successfully"
    /\ 1 \notin DOMAIN orders
    /\ 1 \notin DOMAIN history

\* C34: order and payments agree.  In every committed state an order's
\* payment status is 'paid' exactly when the order has a Payment row with
\* status 'paid'.
C34_OrderPaymentAgreement ==
    \A o \in DOMAIN orders :
        orders[o].payment_status = "paid"
            <=> \E i \in 1..Len(payments[o]) : payments[o][i].status = "paid"

PaidRows(o) == {i \in 1..Len(payments[o]) : payments[o][i].status = "paid"}

\* C35: the paid amount matches the order.  Every committed Payment row
\* with status 'paid' has an amount within one cent of the total of the
\* order it belongs to, whichever handler inserted it.
C35_PaidAmountMatchesOrder ==
    \A o \in DOMAIN payments :
        \A i \in PaidRows(o) :
            /\ o \in DOMAIN orders
            /\ Abs(payments[o][i].amount - orders[o].total_amount) <= 1

\* An order holds a paid row of a capture that was a cent above its total
\* beside the paid row of the cart that created it.
C35_Witness ==
    \E o \in DOMAIN payments :
        /\ \E i \in PaidRows(o) : payments[o][i].amount = orders[o].total_amount + 1
        /\ \E i \in PaidRows(o) : payments[o][i].payment_method = "paypal"
                                    /\ payments[o][i].payment_id = "TEST"

\* The orders that hold a Stripe Payment row of payment intent ref for a
\* cart item of the given tier.
StripeOrders(ref, tier) ==
    {o \in DOMAIN orders :
        /\ orders[o].service_tier_id = tier
        /\ \E i \in 1..Len(payments[o]) :
              /\ payments[o][i].payment_method = "stripe"
              /\ payments[o][i].payment_id = ref}

\* C36: confirmation is idempotent per payment intent.  However often
\* confirm-stripe-payment is called with one succeeded payment intent and
\* the same one-item cart, one order with its paid Payment row exists for it.
C36_StripeConfirmIdempotent ==
    \A r \in StripeRequests : Cardinality(StripeOrders(r.paymentIntentId, r.cart[1])) <= 1

RECURSIVE SumTotals(_, _)
SumTotals(rows, ids) ==
    IF ids = {}
    THEN 0
    ELSE LET o == CHOOSE x \in ids : TRUE
         IN rows[o].total_amount + SumTotals(rows, ids \ {o})

\* C37: the Stripe settlement covers the cart.  Whenever
\* confirm-stripe-payment commits its paid orders, the amount of the
\* succeeded payment intent equals the sum of the totals of the orders of
\* that commit, to the cent.
C37_StripeSettlementCoversCart ==
    [][\A p \in Slots :
          (pc[p] = "x_commit" /\ resp'[p].message = "orders created successfully")
              => Abs(SumTotals(tx[p].ord, DOMAIN tx[p].ord)
                       - paymentIntents[req[p].paymentIntentId].amount) <= 1]_vars

\* Row new is row old with at most its status changed.
SameButStatus(old, new) == [new EXCEPT !.status = old.status] = old

\* C38: the frame of a webhook.  Processing a PayPal webhook event leaves
\* every order row and every history entry as it was, inserts and removes no
\* Payment row, and changes a Payment row in nothing but its status, and
\* only when the row's payment id is the event's resource id; an event that
\* matches no row changes nothing.
C38_WebhookFrame ==
    [][\A p \in Slots :
          pc[p] = "w_event" /\ pc'[p] = "idle"
              => /\ orders' = orders
                 /\ history' = history
                 /\ customers' = customers
                 /\ deliverables' = deliverables
                 /\ DOMAIN payments' = DOMAIN payments
                 /\ \A o \in DOMAIN payments :
                       /\ Len(payments'[o]) = Len(payments[o])
                       /\ \A i \in 1..Len(payments[o]) :
                             /\ SameButStatus(payments[o][i], payments'[o][i])
                             /\ payments[o][i].payment_id # req[p].resourceId
                                   => payments'[o][i] = payments[o][i]]_vars

\* A PAYMENT.CAPTURE.DENIED event has set one Payment row of an order to
\* failed beside a row of another payment id that it left paid.
C38_Witness ==
    \E o \in DOMAIN payments :
        /\ \E i \in 1..Len(payments[o]) : payments[o][i].status = "failed"
        /\ \E i \in 1..Len(payments[o]) : payments[o][i].status = "paid"

\* C39: webhook authenticity.  A PayPal webhook request changes persisted
\* payment state only when its signature is a genuine one, that is, one
\* that verification accepts.
C39_WebhookAuthenticity ==
    [][\A p \in Slots :
          (pc[p] = "w_event" /\ pc'[p] = "idle" /\ payments' # payments)
              => req[p].signature = "genuine"]_vars

\* C40: beginTransaction is all-or-nothing.  A handler that has got its
\* client from beginTransaction has a client whose first call was BEGIN;
\* a request whose beginTransaction has thrown, or is still waiting for a
\* client, holds no client of the pool.
C40_BeginTransactionAllOrNothing ==
    \A p \in Slots :
        /\ pc[p] \notin {"idle", "connect", "rejected"}
              => pool.client[p] # <<>> /\ Head(pool.client[p]) = "BEGIN"
        /\ pc[p] \in {"connect", "rejected"} => ~HoldsClient(p)

====
